---- MODULE Spec2Model ----
(***************************************************************************)
(* Model of the council debate orchestrator, coreason_council.core.speaker *)
(* (ChamberSpeaker), with its collaborators: the proposers, the dissenter  *)
(* (disagreement estimator) and the aggregator.                            *)
(*                                                                         *)
(* Floats in [0,1] (entropy, threshold) are modelled as integer hundredths.*)
(* Optional values (None | v) are modelled as <<>> | <<v>>.                *)
(* Timestamps and the session uuid are not modelled.                       *)
(***************************************************************************)
EXTENDS Integers, Sequences, FiniteSets, TLC

\* ---------------------------------------------------------------- bounds
MaxProposers == 3
MaxRounds == 3
\* Longest text, in characters, handed to the lexical-overlap similarity.
MaxTextLen == 3

\* Entropy scores a dissenter can return, and thresholds a speaker can be
\* configured with (hundredths).
EntropyValues == {0, 10, 50}
Thresholds == {10}

VARIABLES
    proposers,          \* self.proposers: sequence of proposers
    personas,           \* self.personas: sequence of persona names
    dissenter,          \* self.dissenter: the estimator and its configuration
    entropy_threshold,  \* self.entropy_threshold
    max_rounds,         \* self.max_rounds
    pc,                 \* position of resolve_query's control flow
    current_max_rounds, \* local of resolve_query
    proposals,          \* local: current proposal list
    current_round,      \* local
    critiques,          \* local: critiques of the latest debate round
    is_deadlock,        \* local
    trace,              \* local: the CouncilTrace of the session
    done,               \* indices of the tasks of the batch in flight that completed
    error,              \* <<>> or <<e>>: the exception resolve_query raised
    result,             \* <<>> or <<r>>: the (verdict, trace) pair returned
    entropyCalls,       \* calls made to dissenter.calculate_entropy
    aggregateCalls,     \* calls made to aggregator.aggregate
    budget_manager,     \* self.budget_manager: <<>> or <<max_budget>>
    budgetCalls,        \* calls made to budget_manager.check_budget
    reviseCalls,        \* calls made to revise_proposal, with their results
    constructCalls,     \* calls made to ChamberSpeaker(...), with their arguments
    jaccardCalls,       \* calls made to a JaccardDissenter, with their results
    critiqueCalls,      \* calls made to critique_proposal
    other,              \* the locals of a second resolve_query call, suspended
    max_rounds_override \* the max_rounds argument of the call: <<>> or <<r>>

vars == <<proposers, personas, dissenter, entropy_threshold, max_rounds, pc,
          current_max_rounds, proposals, current_round, critiques, is_deadlock,
          trace, done, error, result, entropyCalls, aggregateCalls,
          budget_manager, budgetCalls, reviseCalls, constructCalls, jaccardCalls,
          critiqueCalls, other, max_rounds_override>>

config == <<proposers, personas, dissenter, entropy_threshold, max_rounds,
            budget_manager, constructCalls, jaccardCalls, other>>

\* ------------------------------------------------------------- helpers
None == <<>>
Some(v) == <<v>>

N == Len(proposers)

Last(s) == s[Len(s)]

\* Number of transcript entries of s whose action is a.
RECURSIVE CountIf(_, _)
CountIf(s, a) ==
    IF s = <<>> THEN 0
    ELSE (IF Head(s).action = a THEN 1 ELSE 0) + CountIf(Tail(s), a)

\* ------------------------------------------------------------- types.py
\* CouncilTrace(session_id, roster, topology): the other fields take their defaults.
NewTrace(roster) ==
    [session_id |-> 0, roster |-> roster, transcripts |-> <<>>, topology |-> "STAR",
     entropy_score |-> None, vote_tally |-> None, final_verdict |-> None]

\* The locals of the resolve_query call that is running, with the calls it made.
Locals ==
    [pc |-> pc, current_max_rounds |-> current_max_rounds, proposals |-> proposals,
     current_round |-> current_round, critiques |-> critiques,
     is_deadlock |-> is_deadlock, trace |-> trace, done |-> done, error |-> error,
     result |-> result, entropyCalls |-> entropyCalls,
     aggregateCalls |-> aggregateCalls, budgetCalls |-> budgetCalls,
     reviseCalls |-> reviseCalls, critiqueCalls |-> critiqueCalls,
     max_rounds_override |-> max_rounds_override]

\* The locals of a call that was not made yet.
NoCall ==
    [pc |-> "idle", current_max_rounds |-> 0, proposals |-> <<>>,
     current_round |-> 0, critiques |-> <<>>, is_deadlock |-> FALSE,
     trace |-> NewTrace(<<>>), done |-> {}, error |-> None, result |-> None,
     entropyCalls |-> <<>>, aggregateCalls |-> <<>>, budgetCalls |-> <<>>,
     reviseCalls |-> <<>>, critiqueCalls |-> <<>>, max_rounds_override |-> None]

\* session_id = str(uuid.uuid4()): an identifier no other call carries.
FreshSessionId == other.trace.session_id + 1

\* Variant: the newest entry is put first.
log_interactionPrepend(t, actor, action, content) ==
    [t EXCEPT !.transcripts =
        <<[actor |-> actor, action |-> action, content |-> content]>> \o @]

\* CouncilTrace.log_interaction: appends one TranscriptEntry.
log_interaction(t, actor, action, content) ==
    [t EXCEPT !.transcripts =
        Append(@, [actor |-> actor, action |-> action, content |-> content])]

\* log_interaction applied to each entry of a list, in list order.
RECURSIVE LogAll(_, _)
LogAll(t, entries) ==
    IF entries = <<>> THEN t
    ELSE LogAll(log_interaction(t, Head(entries).actor, Head(entries).action,
                                Head(entries).content), Tail(entries))

\* ---------------------------------------------------------- proposer.py
\* A MockProposer with its proposer_id_prefix, and the LLMProposer, whose
\* proposer ids are "llm-<persona name>": 0 stands for the prefix "llm".
MockProposer(prefix) == [kind |-> "mock", proposer_id_prefix |-> prefix]
LLMProposer == [kind |-> "llm", proposer_id_prefix |-> 0]

\* propose: proposer_id = "<prefix>-<persona.name>"; the third component of
\* the content counts the revisions the text went through.
Propose(proposer, persona) ==
    [proposer_id |-> <<proposer.proposer_id_prefix, persona>>,
     content |-> <<"proposal", persona, 0>>]

\* MockProposer.critique_proposal
CritiqueProposal(target_proposal, persona) ==
    [reviewer_id |-> persona,
     target_proposer_id |-> target_proposal.proposer_id,
     content |-> <<"critique", persona, target_proposal.proposer_id,
                   target_proposal.content[3]>>]

\* Variant: no proposer short-circuits an empty critique list.
ReviseProposalAlways(proposer, original, my_critiques, persona) ==
    [original EXCEPT !.content = <<"proposal", persona, original.content[3] + 1>>]

\* Variant: the revision is issued under the reviser's own id.
ReviseProposalNewId(proposer, original, my_critiques, persona) ==
    IF proposer.kind = "llm" /\ my_critiques = <<>> THEN original
    ELSE [proposer_id |-> <<proposer.proposer_id_prefix, persona + 1>>,
          content |-> <<"proposal", persona, original.content[3] + 1>>]

\* revise_proposal: a new output with the same proposer_id.  LLMProposer
\* returns the original object when there are no critiques; MockProposer
\* revises also then ("Revised based on 0 critiques").
ReviseProposal(proposer, original, my_critiques, persona) ==
    IF proposer.kind = "llm" /\ my_critiques = <<>> THEN original
    ELSE [original EXCEPT !.content = <<"proposal", persona, original.content[3] + 1>>]

\* --------------------------------------------------------- dissenter.py
MockDissenters == [kind : {"mock"}, default_entropy_score : EntropyValues]
\* A dissenter whose calculate_entropy is scripted by the caller
\* (any BaseDissenter implementation): it may return any score.
ScriptedDissenter == [kind |-> "scripted", default_entropy_score |-> 0]

\* The values dissenter d can return from calculate_entropy(props).
\* MockDissenter.calculate_entropy returns the configured score.
CalculateEntropy(d, props) ==
    IF d.kind = "mock" THEN {d.default_entropy_score} ELSE EntropyValues

\* ------------------------------------------------------------- budget
\* Budgets a SimpleBudgetManager can be configured with.
Budgets == {0, 2, 6, MaxProposers + (MaxRounds - 1) * MaxProposers * MaxProposers}

\* Variant: every round, the first included, costs n^2.
CalculateCostAllSquared(n, r) == IF r <= 1 THEN n ELSE r * n * n

\* SimpleBudgetManager.calculate_cost: n operations for round 1 and n^2 for
\* each further round.
CalculateCost(n, r) == IF r <= 1 THEN n ELSE n + (r - 1) * n * n

\* Variant: a cost equal to the budget is refused.
CheckBudgetStrict(max_budget, n, requested) ==
    IF CalculateCost(n, requested) < max_budget THEN Some(requested)
    ELSE IF CalculateCost(n, 1) < max_budget THEN Some(1)
    ELSE None

\* Variant: the downgrade keeps the largest affordable round count.
RECURSIVE CheckBudgetLargest(_, _, _)
CheckBudgetLargest(max_budget, n, requested) ==
    IF CalculateCost(n, requested) <= max_budget THEN Some(requested)
    ELSE IF requested <= 1 THEN None
    ELSE CheckBudgetLargest(max_budget, n, requested - 1)

\* SimpleBudgetManager.check_budget: the permitted round count, <<>> standing
\* for BudgetExceededError.
CheckBudget(max_budget, n, requested) ==
    IF CalculateCost(n, requested) <= max_budget THEN Some(requested)
    ELSE IF CalculateCost(n, 1) <= max_budget THEN Some(1)
    ELSE None

\* The record of one check_budget call.
BudgetCall(max_budget, n, requested) ==
    [max_budget |-> max_budget, n |-> n, requested |-> requested,
     cost |-> CalculateCost(n, requested),
     result |-> CheckBudget(max_budget, n, requested)]

\* --------------------------------------------------------- aggregator
\* Stub aggregator: consensus verdict, or on deadlock the even/odd split of the
\* roster positions into "Option A" / "Option B".
\* Variant: the two halves are exchanged.
SupportersSwapped(props, parity) ==
    LET idx == SelectSeq([k \in 1..Len(props) |-> k], LAMBDA k : (k - 1) % 2 # parity)
    IN  [m \in 1..Len(idx) |-> props[idx[m]].proposer_id]

\* The proposer ids at the 0-based roster indices of the given parity.
Supporters(props, parity) ==
    LET idx == SelectSeq([k \in 1..Len(props) |-> k], LAMBDA k : (k - 1) % 2 = parity)
    IN  [m \in 1..Len(idx) |-> props[idx[m]].proposer_id]

\* confidence_score is in hundredths: default_confidence 0.8, pinned to 0.1 on
\* deadlock.
MockAggregate(props, crits, dl) ==
    [content |-> <<"verdict", dl>>,
     confidence_score |-> IF dl THEN 10 ELSE 80,
     alternatives |->
        IF dl THEN << [label |-> "Option A", supporters |-> Supporters(props, 0)],
                      [label |-> "Option B", supporters |-> Supporters(props, 1)] >>
        ELSE <<>>]

\* Verdicts of an aggregator scripted by the caller (any BaseAggregator
\* implementation): an option without supporters and one with a duplicated
\* supporter, two options sharing a label, and no alternatives at all, each
\* returned whatever is_deadlock says.
ScriptedVerdicts ==
    { [content |-> <<"scripted", FALSE>>, confidence_score |-> 90,
       alternatives |-> << [label |-> "Option Empty", supporters |-> <<>>],
                           [label |-> "Option Dupes",
                            supporters |-> << <<1, 1>>, <<1, 1>>, <<2, 2>> >>] >>],
      [content |-> <<"scripted", FALSE>>, confidence_score |-> 90,
       alternatives |-> << [label |-> "Option A", supporters |-> << <<1, 1>>, <<2, 2>> >>],
                           [label |-> "Option A", supporters |-> << <<1, 1>> >>] >>],
      [content |-> <<"scripted", FALSE>>, confidence_score |-> 90, alternatives |-> <<>>] }

\* The aggregators a speaker can be constructed with: the stub, or one scripted
\* to return a given verdict.  The aggregator is stateless and is called once
\* per session; which one was injected is drawn when it is called.
Aggregators ==
    {[kind |-> "mock", verdict |-> [content |-> <<"verdict", FALSE>>, confidence_score |-> 80,
                                     alternatives |-> <<>>]]}
        \cup {[kind |-> "scripted", verdict |-> v] : v \in ScriptedVerdicts}

\* Variant: the deadlock flag is not handed to the aggregator.
AggregateWithoutFlag(a, props, crits, dl) ==
    IF a.kind = "mock" THEN MockAggregate(props, crits, FALSE) ELSE a.verdict

\* What aggregator a returns from aggregate(props, crits, dl).
Aggregate(a, props, crits, dl) ==
    IF a.kind = "mock" THEN MockAggregate(props, crits, dl) ELSE a.verdict

\* ----------------------------------------------------------- speaker.py
\* The conditions of the divergence-convergence loop.
\* Variant: strict comparison.
ConvergedStrict(entropy, threshold) == entropy < threshold

Converged(entropy, threshold) == entropy <= threshold

\* Variant: the round limit is never reached.
ExhaustedNever(round, maxr) == FALSE

\* Variants: exhaustion tested one round late, one round early.
ExhaustedStrict(round, maxr) == round > maxr

ExhaustedEarly(round, maxr) == round + 1 >= maxr

Exhausted(round, maxr) == round >= maxr

\* Variant: high entropy is declared a deadlock without looking at the round.
LoopDecisionNoDebate(entropy, threshold, round, maxr) ==
    IF Converged(entropy, threshold) THEN "consensus" ELSE "deadlock"

\* Variant: exhaustion tested before convergence.
LoopDecisionExhaustFirst(entropy, threshold, round, maxr) ==
    IF Exhausted(round, maxr) THEN "deadlock"
    ELSE IF Converged(entropy, threshold) THEN "consensus"
    ELSE "debate"

\* What one pass of the loop head decides after the entropy check.
LoopDecision(entropy, threshold, round, maxr) ==
    IF Converged(entropy, threshold) THEN "consensus"
    ELSE IF Exhausted(round, maxr) THEN "deadlock"
    ELSE "debate"

\* All (i, j) in row-major order.
AllPairs(n) == [k \in 1..(n * n) |-> <<((k - 1) \div n) + 1, ((k - 1) % n) + 1>>]

\* Variant: self-pairs are not skipped.
CritiquePairsWithSelf(n) == AllPairs(n)

\* The (target i, critic j) pairs of the critique fan-out: i major, j minor, i # j.
CritiquePairs(n) == SelectSeq(AllPairs(n), LAMBDA p : p[1] # p[2])

\* Variant: the critic's proposer is called with the target's persona.
CritiqueTaskTargetPersona(props, r, p) ==
    [round |-> r, target |-> p[1], critic |-> p[2],
     proposer |-> proposers[p[2]], proposal |-> props[p[1]],
     persona |-> personas[p[1]]]

\* critique_tasks.append(proposer_critic.critique_proposal(proposal, persona_critic))
CritiqueTask(props, r, p) ==
    [round |-> r, target |-> p[1], critic |-> p[2],
     proposer |-> proposers[p[2]], proposal |-> props[p[1]],
     persona |-> personas[p[2]]]

\* The critique_proposal calls of one debate round, in the order the loop
\* creates them.
CritiqueTasks(props, r) ==
    LET pairs == CritiquePairs(Len(props))
    IN  [k \in 1..Len(pairs) |-> CritiqueTask(props, r, pairs[k])]

\* The critiques the critique batch yields, in task order.
CritiqueResults(props) ==
    LET pairs == CritiquePairs(Len(props))
    IN  [k \in 1..Len(pairs) |->
            CritiqueProposal(props[pairs[k][1]], personas[pairs[k][2]])]

\* Variant: every proposer is handed all critiques of the round.
MyCritiquesUnfiltered(crits, proposal) == crits

\* my_critiques = [c for c in critiques if c.target_proposer_id == proposal.proposer_id]
MyCritiques(crits, proposal) ==
    SelectSeq(crits, LAMBDA c : c.target_proposer_id = proposal.proposer_id)

\* The proposals the revision batch yields, in roster order.
RevisionResults(props, crits) ==
    [k \in 1..Len(props) |->
        ReviseProposal(proposers[k], props[k], MyCritiques(crits, props[k]), personas[k])]

\* Backend (LLM client) requests one revise_proposal call makes: the stub has
\* no backend, LLMProposer asks its client unless it short-circuits.
ReviseBackendCalls(proposer, my_critiques) ==
    IF proposer.kind = "llm" /\ my_critiques # <<>> THEN 1 ELSE 0

\* One revise_proposal call as the model records it.
ReviseCall(proposer, original, my_critiques, persona) ==
    [proposer |-> proposer, original |-> original,
     my_critiques |-> my_critiques,
     critique_count |-> Len(my_critiques), persona |-> persona,
     backend_calls |-> ReviseBackendCalls(proposer, my_critiques),
     result |-> ReviseProposal(proposer, original, my_critiques, persona)]

\* The calls of one revision batch, in roster order.
ReviseBatch(props, crits) ==
    [k \in 1..Len(props) |->
        ReviseCall(proposers[k], props[k], MyCritiques(crits, props[k]), personas[k])]

\* Variant: supporters are counted without de-duplication.
RECURSIVE TallyOfNoDedup(_)
TallyOfNoDedup(alts) ==
    IF alts = <<>> THEN <<>>
    ELSE LET rest == TallyOfNoDedup(SubSeq(alts, 1, Len(alts) - 1))
             a == Last(alts)
             labels == {alts[k].label : k \in 1..Len(alts)}
         IN  [l \in labels |-> IF l = a.label THEN Len(a.supporters) ELSE rest[l]]

\* The vote tally of a verdict: {alt.label: len(set(alt.supporters))}, a later
\* option replacing an earlier one with the same label.
RECURSIVE TallyOf(_)
TallyOf(alts) ==
    IF alts = <<>> THEN <<>>
    ELSE LET rest == TallyOf(SubSeq(alts, 1, Len(alts) - 1))
             a == Last(alts)
             labels == {alts[k].label : k \in 1..Len(alts)}
         IN  [l \in labels |->
                 IF l = a.label
                 THEN Cardinality({a.supporters[m] : m \in 1..Len(a.supporters)})
                 ELSE rest[l]]

\* Variant: the tally follows the deadlock flag instead of the alternatives.
VoteTallyByFlag(verdict, n) ==
    IF is_deadlock THEN TallyOf(verdict.alternatives)
    ELSE [l \in {"Consensus"} |-> n]

VoteTally(verdict, n) ==
    IF verdict.alternatives # <<>> THEN TallyOf(verdict.alternatives)
    ELSE [l \in {"Consensus"} |-> n]

\* Variant: current_max_rounds = max_rounds or self.max_rounds (an argument of
\* 0 falls back to the constructor value).
RequestedRoundsFalsy(override) ==
    IF override # None /\ override[1] # 0 THEN override[1] ELSE max_rounds

\* current_max_rounds = max_rounds if max_rounds is not None else self.max_rounds
RequestedRounds(override) == IF override # None THEN override[1] ELSE max_rounds

\* Variants: a refused budget falls back to one round; a downgrade is ignored.
PermittedRoundsLenient(bm, n, requested) ==
    IF bm = None \/ CheckBudget(bm[1], n, requested) = None THEN Some(1)
    ELSE CheckBudget(bm[1], n, requested)

PermittedRoundsNoDowngrade(bm, n, requested) ==
    IF bm = None \/ CheckBudget(bm[1], n, requested) # None THEN Some(requested)
    ELSE None

\* The round count of the session: the requested one, or with a budget manager
\* what check_budget(len(proposers), requested) permits (<<>> when it raises).
PermittedRounds(bm, n, requested) ==
    IF bm = None THEN Some(requested) ELSE CheckBudget(bm[1], n, requested)

\* Number of tasks of the batch in flight.
BatchSize ==
    CASE pc = "propose"  -> N
      [] pc = "critique" -> Len(CritiquePairs(N))
      [] pc = "revise"   -> N
      [] OTHER           -> 0

\* ---------------------------------------------------------------- Init
\* ChamberSpeaker.__init__ succeeded: at least one proposer, as many personas.
\* max_rounds is constructed as 0 or MaxRounds; the max_rounds argument of
\* resolve_query supplies every count in between.
Init ==
    /\ \E n \in 1..MaxProposers :
          /\ proposers = [i \in 1..n |-> MockProposer(i)]
          /\ personas = [i \in 1..n |-> i]
    /\ dissenter \in MockDissenters \cup {ScriptedDissenter}
    /\ entropy_threshold \in Thresholds
    /\ max_rounds \in {0, MaxRounds}
    /\ pc = "idle"
    /\ current_max_rounds = 0
    /\ proposals = <<>>
    /\ current_round = 0
    /\ critiques = <<>>
    /\ is_deadlock = FALSE
    /\ trace = NewTrace(<<>>)
    /\ done = {}
    /\ error = None
    /\ result = None
    /\ entropyCalls = <<>>
    /\ aggregateCalls = <<>>
    /\ budget_manager = None
    /\ budgetCalls = <<>>
    /\ reviseCalls = <<>> /\ critiqueCalls = <<>>
    /\ constructCalls = <<>>
    /\ jaccardCalls = <<>>
    /\ other = NoCall
    /\ max_rounds_override = None

\* ------------------------------------------------------------- actions
\* resolve_query up to the first await: creates the trace and launches the
\* propose tasks.  override is the max_rounds argument (<<>> for None).
ResolveQuery(override) ==
    /\ pc = "idle"
    /\ LET requested == RequestedRounds(override)
           permitted == PermittedRounds(budget_manager, N, requested)
       IN  /\ permitted # None
           /\ current_max_rounds' = permitted[1]
           /\ budgetCalls' =
                 IF budget_manager = None THEN budgetCalls
                 ELSE Append(budgetCalls, BudgetCall(budget_manager[1], N, requested))
    /\ max_rounds_override' = override
    /\ trace' = [NewTrace(personas) EXCEPT !.session_id = FreshSessionId]
    /\ pc' = "propose"
    /\ done' = {}
    /\ UNCHANGED <<config, reviseCalls, critiqueCalls, proposals, current_round, critiques, is_deadlock,
                   error, result, entropyCalls, aggregateCalls>>

\* resolve_query when check_budget raises BudgetExceededError: the call fails
\* before any task is launched.
ResolveQueryBudgetExceeded(override) ==
    /\ pc = "idle"
    /\ budget_manager # None
    /\ LET requested == RequestedRounds(override)
       IN  /\ PermittedRounds(budget_manager, N, requested) = None
           /\ budgetCalls' = Append(budgetCalls, BudgetCall(budget_manager[1], N, requested))
    /\ max_rounds_override' = override
    /\ trace' = [NewTrace(personas) EXCEPT !.session_id = FreshSessionId]
    /\ error' = Some(<<"budget", 0, 0>>)
    /\ pc' = "failed"
    /\ UNCHANGED <<config, reviseCalls, critiqueCalls, current_max_rounds, proposals, current_round,
                   critiques, is_deadlock, done, result, entropyCalls,
                   aggregateCalls>>

\* A direct call budget_manager.check_budget(n, r), outside any session.
CheckBudgetCall(n, r) ==
    /\ pc = "idle"
    /\ budget_manager # None
    /\ budgetCalls' = Append(budgetCalls, BudgetCall(budget_manager[1], n, r))
    /\ pc' = "checked"
    /\ UNCHANGED <<max_rounds_override, config, reviseCalls, critiqueCalls, current_max_rounds, proposals, current_round,
                   critiques, is_deadlock, trace, done, error, result,
                   entropyCalls, aggregateCalls>>

\* A direct call proposer.revise_proposal(original, crits, persona), outside
\* any session.
ReviseProposalCall(proposer, original, crits, persona) ==
    /\ pc = "idle"
    /\ reviseCalls' = Append(reviseCalls, ReviseCall(proposer, original, crits, persona))
    /\ pc' = "checked"
    /\ UNCHANGED <<max_rounds_override, config, budgetCalls, critiqueCalls, current_max_rounds, proposals, current_round,
                   critiques, is_deadlock, trace, done, error, result,
                   entropyCalls, aggregateCalls>>

\* Variant: a task's transcript entry is written when the task completes.
TaskReturnLogged(i) ==
    /\ pc \in {"propose", "critique", "revise"}
    /\ i \in 1..BatchSize
    /\ i \notin done
    /\ done' = done \cup {i}
    /\ trace' = log_interaction(trace, i,
                   IF pc = "propose" THEN <<"propose">>
                   ELSE IF pc = "critique" THEN <<"critique_round", current_round>>
                   ELSE <<"revise_round", current_round>>, <<>>)
    /\ UNCHANGED <<max_rounds_override, config, budgetCalls, reviseCalls, critiqueCalls, pc, current_max_rounds, proposals,
                   current_round, critiques, is_deadlock, error, result, entropyCalls,
                   aggregateCalls>>

\* One task of the batch in flight returns.
TaskReturn(i) ==
    /\ pc \in {"propose", "critique", "revise"}
    /\ i \in 1..BatchSize
    /\ i \notin done
    /\ done' = done \cup {i}
    /\ UNCHANGED <<max_rounds_override, config, budgetCalls, reviseCalls, critiqueCalls, pc, current_max_rounds, proposals, current_round,
                   critiques, is_deadlock, trace, error, result, entropyCalls,
                   aggregateCalls>>

\* Variant: the exception of a task is collected with the results of the batch
\* instead of being propagated (gather with return_exceptions).
TaskRaiseCollected(i) ==
    /\ pc \in {"propose", "critique", "revise"}
    /\ i \in 1..BatchSize
    /\ i \notin done
    /\ error' = Some(<<pc, current_round, i>>)
    /\ done' = done \cup {i}
    /\ UNCHANGED <<max_rounds_override, config, budgetCalls, reviseCalls, critiqueCalls, pc, current_max_rounds, proposals, current_round,
                   critiques, is_deadlock, trace, result, entropyCalls,
                   aggregateCalls>>

\* One task of the batch in flight raises: asyncio.gather propagates the first
\* exception to resolve_query, which does not catch it.  The other tasks of the
\* batch are left to the event loop; nothing reads their results.
TaskRaise(i) ==
    /\ pc \in {"propose", "critique", "revise"}
    /\ i \in 1..BatchSize
    /\ i \notin done
    /\ error' = Some(<<pc, current_round, i>>)
    /\ pc' = "failed"
    /\ done' = {}
    /\ UNCHANGED <<max_rounds_override, config, budgetCalls, reviseCalls, critiqueCalls, current_max_rounds, proposals, current_round,
                   critiques, is_deadlock, trace, result, entropyCalls,
                   aggregateCalls>>

\* The propose batch completed: log the proposals in roster order, initialise
\* the loop variables and call calculate_entropy.
GatherProposals ==
    /\ pc = "propose"
    /\ done = 1..N
    /\ LET props == [k \in 1..N |-> Propose(proposers[k], personas[k])]
       IN  /\ proposals' = props
           /\ trace' = LogAll(trace,
                  [k \in 1..N |-> [actor |-> personas[k], action |-> <<"propose">>,
                                   content |-> props[k].content]])
    /\ current_round' = 1
    /\ critiques' = <<>>
    /\ is_deadlock' = FALSE
    /\ pc' = "entropy"
    /\ done' = {}
    /\ UNCHANGED <<max_rounds_override, config, budgetCalls, reviseCalls, critiqueCalls, current_max_rounds, error, result, entropyCalls,
                   aggregateCalls>>

\* Variant: a session that does not start a debate round is tagged STAR.
EntropyReturnRevert(e) ==
    /\ pc = "entropy"
    /\ e \in CalculateEntropy(dissenter, proposals)
    /\ entropyCalls' = Append(entropyCalls,
           [n |-> Len(proposals), round |-> current_round, value |-> Some(e)])
    /\ LET d == LoopDecision(e, entropy_threshold, current_round, current_max_rounds)
       IN  /\ is_deadlock' = IF d = "deadlock" THEN TRUE ELSE is_deadlock
           /\ trace' = [trace EXCEPT !.entropy_score = Some(e),
                                     !.topology = IF d = "debate" THEN "ROUND_TABLE" ELSE "STAR"]
           /\ pc' = IF d = "debate" THEN "critique" ELSE "aggregate"
           /\ critiqueCalls' = IF d = "debate"
                               THEN critiqueCalls \o CritiqueTasks(proposals, current_round)
                               ELSE critiqueCalls
    /\ done' = {}
    /\ UNCHANGED <<max_rounds_override, config, budgetCalls, reviseCalls, current_max_rounds, proposals, current_round,
                   critiques, error, result, aggregateCalls>>

\* Variant: the trace keeps the entropy of the first check.
EntropyReturnKeepFirst(e) ==
    /\ pc = "entropy"
    /\ e \in CalculateEntropy(dissenter, proposals)
    /\ entropyCalls' = Append(entropyCalls,
           [n |-> Len(proposals), round |-> current_round, value |-> Some(e)])
    /\ LET d == LoopDecision(e, entropy_threshold, current_round, current_max_rounds)
       IN  /\ is_deadlock' = IF d = "deadlock" THEN TRUE ELSE is_deadlock
           /\ trace' = [trace EXCEPT !.entropy_score = IF @ = None THEN Some(e) ELSE @,
                                     !.topology = IF d = "debate" THEN "ROUND_TABLE" ELSE @]
           /\ pc' = IF d = "debate" THEN "critique" ELSE "aggregate"
           /\ critiqueCalls' = IF d = "debate"
                               THEN critiqueCalls \o CritiqueTasks(proposals, current_round)
                               ELSE critiqueCalls
    /\ done' = {}
    /\ UNCHANGED <<max_rounds_override, config, budgetCalls, reviseCalls, current_max_rounds, proposals, current_round,
                   critiques, error, result, aggregateCalls>>

\* calculate_entropy returned e: record it, then converge, declare deadlock or
\* start a debate round (launching the critique tasks).
EntropyReturn(e) ==
    /\ pc = "entropy"
    /\ e \in CalculateEntropy(dissenter, proposals)
    /\ entropyCalls' = Append(entropyCalls,
           [n |-> Len(proposals), round |-> current_round, value |-> Some(e)])
    /\ LET d == LoopDecision(e, entropy_threshold, current_round, current_max_rounds)
       IN  /\ is_deadlock' = IF d = "deadlock" THEN TRUE ELSE is_deadlock
           /\ trace' = [trace EXCEPT !.entropy_score = Some(e),
                                     !.topology = IF d = "debate" THEN "ROUND_TABLE" ELSE @]
           /\ pc' = IF d = "debate" THEN "critique" ELSE "aggregate"
           /\ critiqueCalls' = IF d = "debate"
                               THEN critiqueCalls \o CritiqueTasks(proposals, current_round)
                               ELSE critiqueCalls
    /\ done' = {}
    /\ UNCHANGED <<max_rounds_override, config, budgetCalls, reviseCalls, current_max_rounds, proposals, current_round,
                   critiques, error, result, aggregateCalls>>

\* calculate_entropy raised.
EntropyRaise ==
    /\ pc = "entropy"
    /\ entropyCalls' = Append(entropyCalls,
           [n |-> Len(proposals), round |-> current_round, value |-> None])
    /\ error' = Some(<<"entropy", current_round, 0>>)
    /\ pc' = "failed"
    /\ UNCHANGED <<max_rounds_override, config, budgetCalls, reviseCalls, critiqueCalls, current_max_rounds, proposals, current_round,
                   critiques, is_deadlock, trace, done, result, aggregateCalls>>

\* Variant: the critiques of all rounds are accumulated.
GatherCritiquesAccumulated ==
    /\ pc = "critique"
    /\ done = 1..BatchSize
    /\ LET crits == CritiqueResults(proposals)
       IN  /\ critiques' = critiques \o crits
           /\ trace' = LogAll(trace,
                  [k \in 1..Len(crits) |->
                      [actor |-> crits[k].reviewer_id,
                       action |-> <<"critique_round", current_round>>,
                       content |-> crits[k].content]])
    /\ pc' = "revise"
    /\ done' = {}
    /\ UNCHANGED <<max_rounds_override, config, budgetCalls, reviseCalls, critiqueCalls, current_max_rounds, proposals, current_round,
                   is_deadlock, error, result, entropyCalls, aggregateCalls>>

\* Variant: the revision tasks are launched when the first critique returns
\* (asyncio.wait with FIRST_COMPLETED instead of gather).
GatherCritiquesFirstCompleted ==
    /\ pc = "critique"
    /\ done # {}
    /\ LET crits == CritiqueResults(proposals)
       IN  /\ critiques' = crits
           /\ trace' = LogAll(trace,
                  [k \in 1..Len(crits) |->
                      [actor |-> crits[k].reviewer_id,
                       action |-> <<"critique_round", current_round>>,
                       content |-> crits[k].content]])
    /\ pc' = "revise"
    /\ done' = {}
    /\ UNCHANGED <<max_rounds_override, config, budgetCalls, reviseCalls, critiqueCalls, current_max_rounds, proposals, current_round,
                   is_deadlock, error, result, entropyCalls, aggregateCalls>>

\* The critique batch completed: replace the critiques, log them in task order
\* and launch the revision tasks.
GatherCritiques ==
    /\ pc = "critique"
    /\ done = 1..BatchSize
    /\ LET crits == CritiqueResults(proposals)
       IN  /\ critiques' = crits
           /\ trace' = LogAll(trace,
                  [k \in 1..Len(crits) |->
                      [actor |-> crits[k].reviewer_id,
                       action |-> <<"critique_round", current_round>>,
                       content |-> crits[k].content]])
    /\ pc' = "revise"
    /\ done' = {}
    /\ UNCHANGED <<max_rounds_override, config, budgetCalls, reviseCalls, critiqueCalls, current_max_rounds, proposals, current_round,
                   is_deadlock, error, result, entropyCalls, aggregateCalls>>

\* Variant: only the revisions of the tasks that completed first replace
\* their proposals (the last roster position keeps its old proposal).
GatherRevisionsPartial ==
    /\ pc = "revise"
    /\ done = 1..N
    /\ LET props == RevisionResults(proposals, critiques)
       IN  /\ proposals' = [k \in 1..N |-> IF k < N \/ N = 1 THEN props[k] ELSE proposals[k]]
           /\ trace' = LogAll(trace,
                  [k \in 1..N |->
                      [actor |-> personas[k],
                       action |-> <<"revise_round", current_round>>,
                       content |-> props[k].content]])
    /\ current_round' = current_round + 1
    /\ pc' = "entropy"
    /\ done' = {}
    /\ reviseCalls' = reviseCalls \o ReviseBatch(proposals, critiques)
    /\ UNCHANGED <<max_rounds_override, config, budgetCalls, critiqueCalls, current_max_rounds, critiques, is_deadlock, error,
                   result, entropyCalls, aggregateCalls>>

\* Variant: the revisions of a round are logged ahead of its critiques (the
\* revise entries are inserted before the round's critique entries).
GatherRevisionsLoggedFirst ==
    /\ pc = "revise"
    /\ done = 1..N
    /\ LET props == RevisionResults(proposals, critiques)
           k0 == Len(trace.transcripts) - Len(critiques)
           head == [trace EXCEPT !.transcripts = SubSeq(@, 1, k0)]
           tail == SubSeq(trace.transcripts, k0 + 1, Len(trace.transcripts))
           logged == LogAll(head,
                  [k \in 1..N |->
                      [actor |-> personas[k],
                       action |-> <<"revise_round", current_round>>,
                       content |-> props[k].content]])
       IN  /\ proposals' = props
           /\ trace' = [logged EXCEPT !.transcripts = @ \o tail]
    /\ current_round' = current_round + 1
    /\ pc' = "entropy"
    /\ done' = {}
    /\ reviseCalls' = reviseCalls \o ReviseBatch(proposals, critiques)
    /\ UNCHANGED <<max_rounds_override, config, budgetCalls, critiqueCalls, current_max_rounds, critiques, is_deadlock, error,
                   result, entropyCalls, aggregateCalls>>

\* The revision batch completed: replace the proposals, log them in roster
\* order, increment the round and call calculate_entropy again.
GatherRevisions ==
    /\ pc = "revise"
    /\ done = 1..N
    /\ LET props == RevisionResults(proposals, critiques)
       IN  /\ proposals' = props
           /\ trace' = LogAll(trace,
                  [k \in 1..N |->
                      [actor |-> personas[k],
                       action |-> <<"revise_round", current_round>>,
                       content |-> props[k].content]])
    /\ current_round' = current_round + 1
    /\ pc' = "entropy"
    /\ done' = {}
    /\ reviseCalls' = reviseCalls \o ReviseBatch(proposals, critiques)
    /\ UNCHANGED <<max_rounds_override, config, budgetCalls, critiqueCalls, current_max_rounds, critiques, is_deadlock, error,
                   result, entropyCalls, aggregateCalls>>

\* Variant: the verdict is returned without being logged on the trace.
AggregateReturnUnlogged(aggregator) ==
    /\ pc = "aggregate"
    /\ aggregateCalls' = Append(aggregateCalls,
           [proposals |-> proposals, critiques |-> critiques,
            is_deadlock |-> is_deadlock, aggregator |-> aggregator.kind])
    /\ LET verdict == Aggregate(aggregator, proposals, critiques, is_deadlock)
           t1 == [trace EXCEPT !.final_verdict = Some(verdict)]
           t3 == [t1 EXCEPT !.vote_tally = Some(VoteTally(verdict, N))]
       IN  /\ trace' = t3
           /\ result' = Some([verdict |-> verdict, trace |-> t3])
    /\ pc' = "done"
    /\ UNCHANGED <<max_rounds_override, config, budgetCalls, reviseCalls, critiqueCalls, current_max_rounds, proposals, current_round,
                   critiques, is_deadlock, done, error, entropyCalls>>

\* aggregate returned: store and log the verdict, populate the vote tally and
\* return (verdict, trace).
AggregateReturn(aggregator) ==
    /\ pc = "aggregate"
    /\ aggregateCalls' = Append(aggregateCalls,
           [proposals |-> proposals, critiques |-> critiques,
            is_deadlock |-> is_deadlock, aggregator |-> aggregator.kind])
    /\ LET verdict == Aggregate(aggregator, proposals, critiques, is_deadlock)
           t1 == [trace EXCEPT !.final_verdict = Some(verdict)]
           t2 == log_interaction(t1, "Aggregator", <<"verdict">>, verdict.content)
           t3 == [t2 EXCEPT !.vote_tally = Some(VoteTally(verdict, N))]
       IN  /\ trace' = t3
           /\ result' = Some([verdict |-> verdict, trace |-> t3])
    /\ pc' = "done"
    /\ UNCHANGED <<max_rounds_override, config, budgetCalls, reviseCalls, critiqueCalls, current_max_rounds, proposals, current_round,
                   critiques, is_deadlock, done, error, entropyCalls>>

\* Variant: a failing aggregate is replaced by a fallback consensus verdict.
AggregateRaiseFallback ==
    /\ pc = "aggregate"
    /\ aggregateCalls' = Append(aggregateCalls,
           [proposals |-> proposals, critiques |-> critiques,
            is_deadlock |-> is_deadlock, aggregator |-> "failing"])
    /\ error' = Some(<<"aggregate", current_round, 0>>)
    /\ LET verdict == MockAggregate(proposals, critiques, FALSE)
           t1 == [trace EXCEPT !.final_verdict = Some(verdict)]
       IN  /\ trace' = t1
           /\ result' = Some([verdict |-> verdict, trace |-> t1])
    /\ pc' = "done"
    /\ UNCHANGED <<max_rounds_override, config, budgetCalls, reviseCalls, critiqueCalls, current_max_rounds, proposals, current_round,
                   critiques, is_deadlock, done, entropyCalls>>

\* aggregate raised.
AggregateRaise ==
    /\ pc = "aggregate"
    /\ aggregateCalls' = Append(aggregateCalls,
           [proposals |-> proposals, critiques |-> critiques,
            is_deadlock |-> is_deadlock, aggregator |-> "failing"])
    /\ error' = Some(<<"aggregate", current_round, 0>>)
    /\ pc' = "failed"
    /\ UNCHANGED <<max_rounds_override, config, budgetCalls, reviseCalls, critiqueCalls, current_max_rounds, proposals, current_round,
                   critiques, is_deadlock, trace, done, result, entropyCalls>>

\* ------------------------------------------------------ claim vocabulary
Transcripts == trace.transcripts

\* The rounds r for which the transcript holds a critique_round_r or a
\* revise_round_r entry.
TaggedRounds ==
    {Transcripts[k].action[2] :
        k \in {m \in 1..Len(Transcripts) : Len(Transcripts[m].action) = 2}}

CritiqueCount(r) == CountIf(Transcripts, <<"critique_round", r>>)
ReviseCount(r) == CountIf(Transcripts, <<"revise_round", r>>)

\* The session made k entropy checks so far and each returned a value.
Returned(k) == entropyCalls[k].value # None
High(k) == Returned(k) /\ entropyCalls[k].value[1] > entropy_threshold
Low(k) == Returned(k) /\ entropyCalls[k].value[1] <= entropy_threshold

AllHigh == \A k \in 1..Len(entropyCalls) : High(k)

ErrorPhase == IF error = None THEN "none" ELSE error[1][1]

C1_WitnessOneRound ==
    /\ pc = "done" /\ AllHigh /\ N = 2
    /\ current_max_rounds = 1 /\ TaggedRounds = {}

\* C2: convergence.  With max_rounds >= 3, two high entropy checks are followed
\* by a second debate round and not by exhaustion; when the third check is low
\* the session has entries for rounds 1 and 2 only and aggregates with
\* is_deadlock = False.
C2_Convergence ==
    /\ (current_max_rounds >= 3 /\ Len(entropyCalls) = 2 /\ High(1) /\ High(2)) =>
          /\ pc \in {"critique", "revise", "entropy", "failed"}
          /\ ~is_deadlock
          /\ aggregateCalls = <<>>
    /\ (current_max_rounds >= 3 /\ Len(entropyCalls) = 3 /\ High(1) /\ High(2) /\ Low(3)) =>
          /\ pc \in {"aggregate", "done", "failed"}
          /\ TaggedRounds = {1, 2}
          /\ ReviseCount(1) = N /\ ReviseCount(2) = N
          /\ ~is_deadlock
          /\ \A k \in 1..Len(aggregateCalls) : ~aggregateCalls[k].is_deadlock

C2_Witness ==
    /\ pc = "done" /\ current_max_rounds = 3 /\ N = 2
    /\ Len(entropyCalls) = 3 /\ High(1) /\ High(2) /\ Low(3)
    /\ aggregateCalls[1].is_deadlock = FALSE

\* C3: convergence takes priority over exhaustion.  Whenever the latest entropy
\* check returned a value at or below the threshold, the session went to
\* aggregation with is_deadlock = False, also when current_round >= max_rounds
\* held at that check.
C3_ConvergencePriority ==
    (entropyCalls # <<>> /\ Low(Len(entropyCalls))) =>
        /\ pc \in {"aggregate", "done", "failed"}
        /\ ~is_deadlock
        /\ \A k \in 1..Len(aggregateCalls) : ~aggregateCalls[k].is_deadlock
        /\ Last(entropyCalls).round = current_round

C3_Witness ==
    /\ pc = "done" /\ Len(entropyCalls) = 3 /\ Low(3)
    /\ current_round >= current_max_rounds
    /\ current_max_rounds = 3
    /\ aggregateCalls[1].is_deadlock = FALSE

\* C4: the comparison is inclusive.  When the latest entropy check returned
\* exactly the threshold, no debate round was started at that check and the
\* session aggregates with is_deadlock = False.
C4_InclusiveThreshold ==
    (entropyCalls # <<>> /\ Last(entropyCalls).value = Some(entropy_threshold)) =>
        /\ pc \in {"aggregate", "done", "failed"}
        /\ \A r \in TaggedRounds : r < Last(entropyCalls).round
        /\ (Len(entropyCalls) = 1 => trace.topology = "STAR")
        /\ ~is_deadlock
        /\ \A k \in 1..Len(aggregateCalls) : ~aggregateCalls[k].is_deadlock

C4_Witness ==
    /\ pc = "done" /\ Len(entropyCalls) = 1
    /\ entropyCalls[1].value = Some(entropy_threshold)
    /\ current_round < current_max_rounds
    /\ N >= 2
    /\ aggregateCalls[1].is_deadlock = FALSE

\* C5: fan-out size.  Every completed debate round r has exactly n*(n-1)
\* critique_round_r entries and n revise_round_r entries in the trace; a round
\* whose revisions are still in flight has its n*(n-1) critique entries and
\* no revise entry.
C5_FanOut ==
    /\ \A r \in 1..(current_round - 1) :
          /\ CritiqueCount(r) = N * (N - 1)
          /\ ReviseCount(r) = N
    /\ \A r \in TaggedRounds :
          /\ r <= current_round
          /\ r = current_round => (CritiqueCount(r) = N * (N - 1) /\ ReviseCount(r) = 0)

C5_Witness ==
    /\ N = 3 /\ current_round = 3
    /\ CritiqueCount(1) = 6 /\ ReviseCount(1) = 3
    /\ CritiqueCount(2) = 6 /\ ReviseCount(2) = 3

\* C6: fail-fast in the propose phase.  When a propose call failed,
\* resolve_query failed with that proposer's error: no entropy check and no
\* aggregate call was made, nothing was logged (so no critique and no revision
\* took place) and no (verdict, trace) pair was returned.
C6_ProposeFailFast ==
    ErrorPhase = "propose" =>
        /\ pc = "failed"
        /\ error[1][3] \in 1..N
        /\ entropyCalls = <<>>
        /\ aggregateCalls = <<>>
        /\ Transcripts = <<>>
        /\ proposals = <<>>
        /\ result = None

C6_Witness ==
    /\ ErrorPhase = "propose" /\ pc = "failed" /\ N = 3 /\ error[1][3] = 2

\* C7: fail-fast in a debate round.  When a critique_proposal or a
\* revise_proposal call of round r failed, resolve_query failed with that
\* error, the aggregator was never invoked, no verdict was returned, and the
\* results of the batch were not merged: a failed critique batch left no
\* critique_round_r entry, a failed revision batch no revise_round_r entry and
\* no further entropy check.
C7_DebateFailFast ==
    ErrorPhase \in {"critique", "revise"} =>
        /\ pc = "failed"
        /\ aggregateCalls = <<>>
        /\ result = None
        /\ trace.final_verdict = None
        /\ trace.vote_tally = None
        /\ current_round = error[1][2]
        /\ Len(entropyCalls) = current_round
        /\ ReviseCount(current_round) = 0
        /\ ErrorPhase = "critique" => CritiqueCount(current_round) = 0
        /\ ErrorPhase = "revise" => CritiqueCount(current_round) = N * (N - 1)

C7_WitnessCritique ==
    /\ ErrorPhase = "critique" /\ pc = "failed" /\ N = 3 /\ current_round = 2

C7_WitnessRevise ==
    /\ ErrorPhase = "revise" /\ pc = "failed" /\ N = 2 /\ current_round = 1

\* C8: nothing is recovered locally.  When aggregate or calculate_entropy
\* failed, resolve_query failed with that error: the failing call was the last
\* call made to that collaborator (no retry), an estimator failure is followed
\* by no aggregate call, no verdict is stored on the trace and no
\* (verdict, trace) pair is returned.
C8_NoLocalRecovery ==
    ErrorPhase \in {"aggregate", "entropy"} =>
        /\ pc = "failed"
        /\ result = None
        /\ trace.final_verdict = None
        /\ trace.vote_tally = None
        /\ CountIf(Transcripts, <<"verdict">>) = 0
        /\ ErrorPhase = "aggregate" => Len(aggregateCalls) = 1
        /\ ErrorPhase = "entropy" =>
              /\ aggregateCalls = <<>>
              /\ Last(entropyCalls).value = None
              /\ Len(entropyCalls) = current_round

C8_WitnessAggregate ==
    /\ ErrorPhase = "aggregate" /\ pc = "failed" /\ Len(aggregateCalls) = 1
    /\ aggregateCalls[1].is_deadlock

C8_WitnessEntropy ==
    /\ ErrorPhase = "entropy" /\ pc = "failed" /\ Len(entropyCalls) = 2

\* C9: a session with a single proposer and the stub estimator records entropy
\* 0.0 whatever score the stub is configured with, keeps topology STAR, logs no
\* critique or revise entry and does not deadlock.
C9_SingleProposerConverges ==
    (N = 1 /\ dissenter.kind = "mock" /\ entropyCalls # <<>>) =>
        /\ trace.entropy_score \in {None, Some(0)}
        /\ trace.topology = "STAR"
        /\ TaggedRounds = {}
        /\ ~is_deadlock

\* C10: calculate_entropy of the stub estimator returns 0.0 for a list of 0 or
\* 1 proposals and its configured score for 2 or more proposals.
C10_DegenerateEntropyIsZero ==
    dissenter.kind = "mock" =>
        \A k \in 1..Len(entropyCalls) :
            Returned(k) =>
                entropyCalls[k].value[1] =
                    IF entropyCalls[k].n <= 1 THEN 0 ELSE dissenter.default_entropy_score

\* C11: vote tally.  In a returned trace, when the verdict carries alternatives
\* the tally has exactly the option labels as keys and maps each label to the
\* number of distinct supporters of the option carrying it (the last one when
\* a label occurs twice), an option without supporters mapping to 0; otherwise
\* the tally is exactly {"Consensus": number of proposers}.
DistinctSupporters(option) ==
    {option.supporters[m] : m \in 1..Len(option.supporters)}

C11_VoteTally ==
    pc = "done" =>
        LET alts == result[1].verdict.alternatives
            tally == result[1].trace.vote_tally[1]
        IN  /\ result[1].trace.vote_tally # None
            /\ alts # <<>> =>
                  /\ DOMAIN tally = {alts[k].label : k \in 1..Len(alts)}
                  /\ \A k \in 1..Len(alts) :
                        (\A m \in (k + 1)..Len(alts) : alts[m].label # alts[k].label)
                            => tally[alts[k].label] = Cardinality(DistinctSupporters(alts[k]))
                  /\ \A k \in 1..Len(alts) :
                        alts[k].supporters = <<>> => tally[alts[k].label] = 0
            /\ alts = <<>> =>
                  /\ DOMAIN tally = {"Consensus"}
                  /\ tally["Consensus"] = N

C11_Witness ==
    /\ pc = "done"
    /\ Len(result[1].verdict.alternatives) = 2
    /\ result[1].verdict.alternatives[2].label = "Option Dupes"
    /\ result[1].trace.vote_tally[1]["Option Dupes"] = 2
    /\ result[1].trace.vote_tally[1]["Option Empty"] = 0

C11_WitnessConsensus ==
    /\ pc = "done" /\ N = 3
    /\ result[1].verdict.alternatives = <<>>
    /\ result[1].trace.vote_tally[1]["Consensus"] = 3

\* ---------------------------------------------------------------- Next
Next ==
    \/ \E o \in {None} \cup {Some(r) : r \in 0..MaxRounds} : ResolveQuery(o)
    \/ \E i \in 1..(MaxProposers * MaxProposers) : TaskReturn(i)
    \/ \E i \in 1..(MaxProposers * MaxProposers) : TaskRaise(i)
    \/ GatherProposals
    \/ \E e \in EntropyValues : EntropyReturn(e)
    \/ EntropyRaise
    \/ GatherCritiques
    \/ GatherRevisions
    \/ \E a \in Aggregators : AggregateReturn(a)
    \/ AggregateRaise

Spec == Init /\ [][Next]_vars

\* ------------------------------------------------------ budgeted sessions
\* A speaker constructed with a SimpleBudgetManager and the stub dissenter.
InitBudget ==
    /\ \E n \in 1..MaxProposers :
          /\ proposers = [i \in 1..n |-> MockProposer(i)]
          /\ personas = [i \in 1..n |-> i]
    /\ dissenter \in MockDissenters
    /\ entropy_threshold \in Thresholds
    /\ max_rounds = MaxRounds
    /\ budget_manager \in {Some(b) : b \in Budgets}
    /\ pc = "idle"
    /\ current_max_rounds = 0
    /\ proposals = <<>>
    /\ current_round = 0
    /\ critiques = <<>>
    /\ is_deadlock = FALSE
    /\ trace = NewTrace(<<>>)
    /\ done = {}
    /\ error = None
    /\ result = None
    /\ entropyCalls = <<>>
    /\ aggregateCalls = <<>>
    /\ budgetCalls = <<>>
    /\ reviseCalls = <<>> /\ critiqueCalls = <<>>
    /\ constructCalls = <<>>
    /\ jaccardCalls = <<>>
    /\ other = NoCall
    /\ max_rounds_override = None

NextBudget ==
    \/ Next
    \/ \E o \in {None} \cup {Some(r) : r \in 0..MaxRounds} : ResolveQueryBudgetExceeded(o)
    \/ \E n \in 0..(MaxProposers + 1), r \in (-1)..(MaxRounds + 1) : CheckBudgetCall(n, r)

SpecBudget == InitBudget /\ [][NextBudget]_vars

\* ------------------------------------------------------- budget claims
\* The cost model as the contract words it.
ContractCost(n, r) == n + (IF r >= 2 THEN (r - 1) * n * n ELSE 0)

\* The round counts r' <= r that max_budget affords (every r' <= 1 costs n).
Affordable(c) ==
    {rr \in (-2)..c.requested : ContractCost(c.n, rr) <= c.max_budget}

IsLargestAffordable(c, v) ==
    /\ v \in Affordable(c)
    /\ \A rr \in Affordable(c) : rr <= v

\* C12: check_budget(n, r) returns r when cost(n, r) <= max_budget (equality
\* included), else 1 when cost(n, 1) <= max_budget, else raises; every returned
\* value v is r or 1 and cost(n, v) <= max_budget.
C12_CheckBudget ==
    \A k \in 1..Len(budgetCalls) :
        LET c == budgetCalls[k]
        IN  /\ ContractCost(c.n, c.requested) <= c.max_budget => c.result = Some(c.requested)
            /\ (ContractCost(c.n, c.requested) > c.max_budget
                    /\ ContractCost(c.n, 1) <= c.max_budget) => c.result = Some(1)
            /\ (ContractCost(c.n, c.requested) > c.max_budget
                    /\ ContractCost(c.n, 1) > c.max_budget) => c.result = None
            /\ c.result # None =>
                  /\ c.result[1] \in {c.requested, 1}
                  /\ ContractCost(c.n, c.result[1]) <= c.max_budget

C12_Witness ==
    /\ budgetCalls # <<>>
    /\ budgetCalls[1].n = 2 /\ budgetCalls[1].requested = 2
    /\ budgetCalls[1].max_budget = 6 /\ budgetCalls[1].result = Some(2)

C12_WitnessDowngrade ==
    /\ budgetCalls # <<>>
    /\ budgetCalls[1].n = 3 /\ budgetCalls[1].requested = 3
    /\ budgetCalls[1].max_budget = 6 /\ budgetCalls[1].result = Some(1)

C12_WitnessRaise ==
    /\ budgetCalls # <<>>
    /\ budgetCalls[1].n = 3 /\ budgetCalls[1].requested = 1
    /\ budgetCalls[1].max_budget = 2 /\ budgetCalls[1].result = None

\* C13 as stated: whenever check_budget succeeds, the returned round count is
\* the largest r' <= r with calculate_cost(n, r') <= max_budget.
C13_LargestAffordable ==
    \A k \in 1..Len(budgetCalls) :
        budgetCalls[k].result # None =>
            IsLargestAffordable(budgetCalls[k], budgetCalls[k].result[1])

\* C13 amended: a successful check_budget returns r when r is affordable and
\* otherwise downgrades straight to 1; the returned count is the largest
\* affordable r' <= r exactly when r is affordable or no r' in 2..r is.
C13_DowngradeToOne ==
    \A k \in 1..Len(budgetCalls) :
        LET c == budgetCalls[k]
        IN  c.result # None =>
              /\ c.requested \in Affordable(c) =>
                    /\ c.result[1] = c.requested
                    /\ IsLargestAffordable(c, c.requested)
              /\ c.requested \notin Affordable(c) =>
                    /\ c.result[1] = 1
                    /\ IsLargestAffordable(c, 1)
                         <=> (\A rr \in 2..c.requested : rr \notin Affordable(c))

C13_Witness ==
    /\ budgetCalls # <<>>
    /\ budgetCalls[1].n = 2 /\ budgetCalls[1].requested = 3
    /\ budgetCalls[1].max_budget = 6 /\ budgetCalls[1].result = Some(1)
    /\ 2 \in Affordable(budgetCalls[1])

C14_WitnessNegative ==
    /\ budgetCalls # <<>>
    /\ budgetCalls[1].n = 2 /\ budgetCalls[1].requested = -1 /\ budgetCalls[1].cost = 2

InSession == pc \notin {"idle", "checked"} /\ ErrorPhase # "budget"

C16_WitnessFits ==
    /\ pc = "done" /\ budget_manager = Some(6) /\ N = 2
    /\ Last(budgetCalls).requested = 2 /\ current_max_rounds = 2
    /\ AllHigh /\ TaggedRounds = {1}

\* ------------------------------------------------------- mixed panels
\* Panels of n proposers: all stubs, all LLM-backed, or alternating.
Panels(n) ==
    { [i \in 1..n |-> MockProposer(i)],
      [i \in 1..n |-> LLMProposer],
      [i \in 1..n |-> IF i % 2 = 1 THEN LLMProposer ELSE MockProposer(i)] }

\* A speaker constructed over one of these panels, with the stub dissenter.
InitPanel ==
    /\ \E n \in 1..MaxProposers :
          /\ proposers \in Panels(n)
          /\ personas = [i \in 1..n |-> i]
    /\ dissenter \in MockDissenters
    /\ entropy_threshold \in Thresholds
    /\ max_rounds = MaxRounds
    /\ budget_manager = None
    /\ pc = "idle"
    /\ current_max_rounds = 0
    /\ proposals = <<>>
    /\ current_round = 0
    /\ critiques = <<>>
    /\ is_deadlock = FALSE
    /\ trace = NewTrace(<<>>)
    /\ done = {}
    /\ error = None
    /\ result = None
    /\ entropyCalls = <<>>
    /\ aggregateCalls = <<>>
    /\ budgetCalls = <<>>
    /\ reviseCalls = <<>> /\ critiqueCalls = <<>>
    /\ constructCalls = <<>>
    /\ jaccardCalls = <<>>
    /\ other = NoCall
    /\ max_rounds_override = None

\* Arguments of the direct revise_proposal calls: a first or an already
\* revised proposal, no critique or one, any persona.
SampleProposals ==
    LET firsts == {Propose(q, a) : q \in {MockProposer(1), LLMProposer}, a \in 1..2}
    IN  firsts \cup {[o EXCEPT !.content[3] = 1] : o \in firsts}

NextPanel ==
    \/ Next
    \/ \E q \in {MockProposer(1), LLMProposer}, o \in SampleProposals,
          some \in BOOLEAN, a \in 1..2 :
          ReviseProposalCall(q, o, IF some THEN <<CritiqueProposal(o, 2)>> ELSE <<>>, a)

SpecPanel == InitPanel /\ [][NextPanel]_vars

C17_WitnessMock ==
    /\ pc = "checked" /\ reviseCalls # <<>>
    /\ reviseCalls[1].proposer.kind = "mock"
    /\ reviseCalls[1].critique_count = 0
    /\ reviseCalls[1].persona # reviseCalls[1].original.proposer_id[2]
    /\ reviseCalls[1].result # reviseCalls[1].original

\* The proposer_id propose gives the proposer at roster position k.
InitialId(k) == <<proposers[k].proposer_id_prefix, personas[k]>>

\* C18: proposer identity is stable across rounds.  After any number of debate
\* rounds the proposal at roster position k carries the proposer_id of the
\* initial proposal at k, and in every round the critiques targeting that id,
\* one per other proposer, are the ones handed to proposer k's revision.
C18_StableProposerId ==
    /\ \A k \in 1..Len(proposals) : proposals[k].proposer_id = InitialId(k)
    /\ pc # "checked" =>
          \A j \in 1..Len(reviseCalls) :
              LET k == ((j - 1) % N) + 1
              IN  /\ reviseCalls[j].proposer = proposers[k]
                  /\ reviseCalls[j].original.proposer_id = InitialId(k)
                  /\ reviseCalls[j].result.proposer_id = InitialId(k)
                  /\ reviseCalls[j].critique_count = N - 1
    /\ \A j \in 1..Len(critiques) :
          \E k \in 1..N :
              /\ critiques[j].target_proposer_id = InitialId(k)
              /\ \A m \in 1..N : critiques[j].target_proposer_id = InitialId(m) => m = k

C18_Witness ==
    /\ N = 3 /\ current_round = 3 /\ Len(reviseCalls) = 6 /\ Len(critiques) = 6
    /\ proposers[1].kind = "llm" /\ proposers[2].kind = "mock"
    /\ reviseCalls[5].original.content[3] = 1
    /\ reviseCalls[5].critique_count = 2
    /\ proposals[2].proposer_id = InitialId(2)

\* ------------------------------------------------------- trace claims
\* The place of transcript entry i inside its debate round (rounds take N * N
\* entries: N * (N - 1) critiques, then N revisions).
RoundOffset(i, r) == i - N - (r - 1) * N * N

\* The critic of the o-th critique of a round in target-major, critic-minor
\* order: the targets' other roster positions, ascending.
TargetOf(o) == ((o - 1) \div (N - 1)) + 1
CriticOf(o) ==
    LET rank == ((o - 1) % (N - 1)) + 1
    IN  IF rank < TargetOf(o) THEN rank ELSE rank + 1

\* C19: completion order does not leak into the trace.  While a batch is in
\* flight, whatever tasks have completed, the transcript holds no entry of that
\* batch; once logged, proposals and revisions stand in roster order and
\* critiques in target-major, critic-minor pair order, so the transcript is the
\* same for every completion order.
C19_CompletionOrderHidden ==
    /\ pc = "propose" => Transcripts = <<>>
    /\ pc = "critique" => CritiqueCount(current_round) = 0 /\ ReviseCount(current_round) = 0
    /\ pc = "revise" =>
          CritiqueCount(current_round) = N * (N - 1) /\ ReviseCount(current_round) = 0
    /\ \A i \in 1..Len(Transcripts) :
          LET e == Transcripts[i]
          IN  /\ e.action = <<"propose">> => i <= N /\ e.actor = personas[i]
              /\ \A r \in 1..MaxRounds :
                    /\ e.action = <<"critique_round", r>> =>
                          LET o == RoundOffset(i, r)
                          IN  /\ o \in 1..(N * (N - 1))
                              /\ e.actor = personas[CriticOf(o)]
                              /\ e.content[3] = InitialId(TargetOf(o))
                    /\ e.action = <<"revise_round", r>> =>
                          LET o == RoundOffset(i, r) - N * (N - 1)
                          IN  /\ o \in 1..N
                              /\ e.actor = personas[o]
                              /\ e.content[2] = personas[o]

C19_Witness ==
    /\ pc = "revise" /\ N = 3 /\ done = {3} /\ current_round = 2
    /\ CritiqueCount(2) = 6 /\ ReviseCount(2) = 0
    /\ Transcripts[3 + 9 + 1].actor = personas[2]
    /\ Transcripts[3 + 9 + 6].actor = personas[2]

C19_WitnessPropose ==
    /\ pc = "propose" /\ N = 3 /\ done = {2, 3} /\ Transcripts = <<>>

\* A debate round was started: an entropy check came back above the threshold
\* before the last permitted round.
DebateStarted ==
    \E k \in 1..Len(entropyCalls) :
        High(k) /\ entropyCalls[k].round < current_max_rounds

\* C20: topology is sticky.  The trace is STAR until the first debate round
\* starts and ROUND_TABLE from then on, never back to STAR; the returned trace
\* is ROUND_TABLE exactly when a debate round was started, also when the session
\* later converged, and STAR otherwise, also after a deadlock with max_rounds 1.
C20_StickyTopology ==
    /\ [](/\ trace.topology = (IF DebateStarted THEN "ROUND_TABLE" ELSE "STAR")
          /\ pc = "done" =>
                /\ result[1].trace.topology = trace.topology
                /\ (trace.topology = "ROUND_TABLE") <=> (TaggedRounds # {}))
    /\ [][trace.topology = "ROUND_TABLE" => trace'.topology = "ROUND_TABLE"]_vars

C20_Witness ==
    /\ pc = "done" /\ trace.topology = "ROUND_TABLE"
    /\ Len(entropyCalls) = 2 /\ High(1) /\ Low(2) /\ ~is_deadlock

C20_WitnessStarDeadlock ==
    /\ pc = "done" /\ trace.topology = "STAR"
    /\ current_max_rounds = 1 /\ High(1) /\ is_deadlock

\* ------------------------------------------------------- construction
\* Variant: the aggregator is not checked at construction.
ConfigErrorNoAggregatorCheck(ps, pers, d, a) ==
    IF ps = <<>> THEN "no_proposer"
    ELSE IF pers = <<>> THEN "no_persona"
    ELSE IF Len(ps) # Len(pers) THEN "count_mismatch"
    ELSE IF d = None THEN "no_dissenter"
    ELSE "none"

\* ChamberSpeaker.__init__'s validation: the ValueError it raises, first
\* failing check first, or "none".
ConfigError(ps, pers, d, a) ==
    IF ps = <<>> THEN "no_proposer"
    ELSE IF pers = <<>> THEN "no_persona"
    ELSE IF Len(ps) # Len(pers) THEN "count_mismatch"
    ELSE IF d = None THEN "no_dissenter"
    ELSE IF a = None THEN "no_aggregator"
    ELSE "none"

\* Arguments a caller may hand to the constructor.
ProposerLists == {[i \in 1..n |-> MockProposer(i)] : n \in 0..MaxProposers}
PersonaLists == {[i \in 1..n |-> i] : n \in 0..MaxProposers}
DissenterArgs == {None} \cup {Some(d) : d \in MockDissenters}
AggregatorArgs == {None, Some("aggregator")}

\* The dissenter field of a speaker that does not exist yet.
NoDissenter == [kind |-> "none", default_entropy_score |-> 0]

ConstructCall(ps, pers, d, a) ==
    [proposers |-> ps, personas |-> pers, dissenter |-> d, aggregator |-> a,
     raised |-> ConfigError(ps, pers, d, a)]

\* ChamberSpeaker(ps, pers, d, a) passes validation and stores its arguments.
Construct(ps, pers, d, a) ==
    /\ pc = "new"
    /\ ConfigError(ps, pers, d, a) = "none"
    /\ constructCalls' = Append(constructCalls, ConstructCall(ps, pers, d, a))
    /\ proposers' = ps
    /\ personas' = pers
    /\ dissenter' = d[1]
    /\ entropy_threshold' \in Thresholds
    /\ max_rounds' = MaxRounds
    /\ pc' = "idle"
    /\ UNCHANGED <<max_rounds_override, other, budget_manager, budgetCalls, reviseCalls, critiqueCalls, jaccardCalls, current_max_rounds,
                   proposals, current_round, critiques, is_deadlock, trace, done, error, result,
                   entropyCalls, aggregateCalls>>

\* ChamberSpeaker(ps, pers, d, a) raises ValueError: no speaker exists.
ConstructRaise(ps, pers, d, a) ==
    /\ pc = "new"
    /\ ConfigError(ps, pers, d, a) # "none"
    /\ constructCalls' = Append(constructCalls, ConstructCall(ps, pers, d, a))
    /\ error' = Some(<<ConfigError(ps, pers, d, a), 0, 0>>)
    /\ pc' = "rejected"
    /\ UNCHANGED <<max_rounds_override, other, proposers, personas, dissenter, entropy_threshold, max_rounds,
                   budget_manager, budgetCalls, reviseCalls, critiqueCalls, jaccardCalls, current_max_rounds,
                   proposals, current_round, critiques, is_deadlock, trace, done, result,
                   entropyCalls, aggregateCalls>>

InitConstruct ==
    /\ proposers = <<>>
    /\ personas = <<>>
    /\ dissenter = NoDissenter
    /\ entropy_threshold = 0
    /\ max_rounds = 0
    /\ budget_manager = None
    /\ pc = "new"
    /\ current_max_rounds = 0
    /\ proposals = <<>>
    /\ current_round = 0
    /\ critiques = <<>>
    /\ is_deadlock = FALSE
    /\ trace = NewTrace(<<>>)
    /\ done = {}
    /\ error = None
    /\ result = None
    /\ entropyCalls = <<>>
    /\ aggregateCalls = <<>>
    /\ budgetCalls = <<>>
    /\ reviseCalls = <<>> /\ critiqueCalls = <<>>
    /\ constructCalls = <<>>
    /\ jaccardCalls = <<>>
    /\ other = NoCall
    /\ max_rounds_override = None

NextConstruct ==
    \/ \E ps \in ProposerLists, pers \in PersonaLists, d \in DissenterArgs,
          a \in AggregatorArgs : Construct(ps, pers, d, a)
    \/ \E ps \in ProposerLists, pers \in PersonaLists, d \in DissenterArgs,
          a \in AggregatorArgs : ConstructRaise(ps, pers, d, a)
    \/ Next

SpecConstruct == InitConstruct /\ [][NextConstruct]_vars

\* No collaborator has been called and no session state exists.
Untouched ==
    /\ proposals = <<>> /\ critiques = <<>> /\ done = {}
    /\ Transcripts = <<>> /\ result = None
    /\ entropyCalls = <<>> /\ aggregateCalls = <<>>
    /\ budgetCalls = <<>> /\ reviseCalls = <<>> /\ critiqueCalls = <<>>

\* C21: construction fails at once with a configuration error, with no
\* collaborator called and no speaker produced, when the proposer list is
\* empty, the persona list is empty, the counts differ, the dissenter is missing
\* or the aggregator is missing; every constructed speaker has n >= 1 proposers
\* and exactly n personas.
C21_ConstructionValidated ==
    /\ \A k \in 1..Len(constructCalls) :
          LET c == constructCalls[k]
              bad == \/ c.proposers = <<>>
                     \/ c.personas = <<>>
                     \/ Len(c.proposers) # Len(c.personas)
                     \/ c.dissenter = None
                     \/ c.aggregator = None
          IN  /\ bad <=> c.raised # "none"
              /\ bad => /\ pc = "rejected"
                        /\ error # None
                        /\ proposers = <<>> /\ personas = <<>> /\ dissenter = NoDissenter
                        /\ Untouched
    /\ pc \notin {"new", "rejected"} =>
          /\ N >= 1
          /\ Len(personas) = N
          /\ dissenter # NoDissenter

C21_Witness ==
    /\ pc = "rejected" /\ constructCalls # <<>>
    /\ Len(constructCalls[1].proposers) = 2 /\ Len(constructCalls[1].personas) = 1
    /\ constructCalls[1].raised = "count_mismatch"

C21_WitnessNoAggregator ==
    /\ pc = "rejected" /\ constructCalls # <<>>
    /\ Len(constructCalls[1].proposers) = 2 /\ Len(constructCalls[1].personas) = 2
    /\ constructCalls[1].dissenter # None /\ constructCalls[1].aggregator = None
    /\ constructCalls[1].raised = "no_aggregator"

C21_WitnessConstructed ==
    /\ pc = "done" /\ constructCalls # <<>> /\ N = 2

\* ------------------------------------------------------ outcome claims
\* The verdict resolve_query returned.
ReturnedVerdict == result[1].verdict

\* The session ended by convergence / by exhaustion: its last entropy check.
EndedConverged == entropyCalls # <<>> /\ Low(Len(entropyCalls))
EndedExhausted == entropyCalls # <<>> /\ High(Len(entropyCalls))

\* C22 as stated: a session that converges returns a verdict without
\* alternatives, and a session that exhausts its rounds with entropy above the
\* threshold returns a verdict with a non-empty list of alternatives.
C22_OutcomeShape ==
    pc = "done" =>
        /\ EndedConverged => ReturnedVerdict.alternatives = <<>>
        /\ EndedExhausted => ReturnedVerdict.alternatives # <<>>

\* C22 amended: with the stub aggregator, a session that converges returns a
\* verdict without alternatives and a session that exhausts its rounds returns
\* one with a non-empty list of labelled alternatives with supporter lists; the
\* orchestrator returns the verdict of whatever aggregator it was given
\* unchanged, whatever its alternatives.
C22_OutcomeShapeStub ==
    pc = "done" =>
        /\ EndedConverged <=> ~aggregateCalls[1].is_deadlock
        /\ EndedExhausted <=> aggregateCalls[1].is_deadlock
        /\ trace.final_verdict = Some(ReturnedVerdict)
        /\ aggregateCalls[1].aggregator = "mock" =>
              /\ EndedConverged => ReturnedVerdict.alternatives = <<>>
              /\ EndedExhausted =>
                    /\ ReturnedVerdict.alternatives # <<>>
                    /\ \A k \in 1..Len(ReturnedVerdict.alternatives) :
                          /\ ReturnedVerdict.alternatives[k].label \in {"Option A", "Option B"}
                          /\ Len(ReturnedVerdict.alternatives[k].supporters) <= N

C22_Witness ==
    /\ pc = "done" /\ aggregateCalls[1].aggregator = "mock" /\ EndedExhausted
    /\ N = 3 /\ current_round = 2
    /\ Len(ReturnedVerdict.alternatives) = 2

C22_WitnessConverged ==
    /\ pc = "done" /\ aggregateCalls[1].aggregator = "mock" /\ EndedConverged
    /\ current_round = 2 /\ ReturnedVerdict.alternatives = <<>>

\* The set of the entries of a sequence.
Range(seq) == {seq[k] : k \in 1..Len(seq)}

\* C23: the stub aggregator called with is_deadlock = True on n proposals
\* returns exactly two alternatives, "Option A" supported by the proposer ids at
\* even (0-based) roster positions and "Option B" by those at odd positions;
\* the supporter sets are disjoint, their union is the set of input proposer
\* ids, and the confidence is at most 0.1.
C23_DeadlockPartition ==
    (pc = "done" /\ aggregateCalls[1].aggregator = "mock" /\ aggregateCalls[1].is_deadlock) =>
        LET props == aggregateCalls[1].proposals
            alts == ReturnedVerdict.alternatives
            ids == {props[k].proposer_id : k \in 1..Len(props)}
        IN  /\ Len(alts) = 2
            /\ alts[1].label = "Option A" /\ alts[2].label = "Option B"
            /\ Range(alts[1].supporters) =
                  {props[k].proposer_id : k \in {j \in 1..Len(props) : j % 2 = 1}}
            /\ Range(alts[2].supporters) =
                  {props[k].proposer_id : k \in {j \in 1..Len(props) : j % 2 = 0}}
            /\ Len(alts[1].supporters) = (Len(props) + 1) \div 2
            /\ Len(alts[2].supporters) = Len(props) \div 2
            /\ Range(alts[1].supporters) \cap Range(alts[2].supporters) = {}
            /\ Range(alts[1].supporters) \cup Range(alts[2].supporters) = ids
            /\ ReturnedVerdict.confidence_score <= 10

C23_Witness ==
    /\ pc = "done" /\ aggregateCalls[1].aggregator = "mock" /\ aggregateCalls[1].is_deadlock
    /\ N = 3
    /\ ReturnedVerdict.alternatives[1].supporters = << <<1, 1>>, <<3, 3>> >>
    /\ ReturnedVerdict.alternatives[2].supporters = << <<2, 2>> >>

C23_WitnessSingle ==
    /\ pc = "done" /\ aggregateCalls[1].aggregator = "mock" /\ aggregateCalls[1].is_deadlock
    /\ N = 1
    /\ ReturnedVerdict.alternatives[2].supporters = <<>>

\* ------------------------------------------------- lexical-overlap dissenter
\* Exact fractions p/q, q > 0, in lowest terms.
RECURSIVE GCD(_, _)
GCD(a, b) == IF b = 0 THEN a ELSE GCD(b, a % b)

Frac(p, q) == LET g == GCD(p, q) IN [p |-> p \div g, q |-> q \div g]
FracAdd(x, y) == Frac(x.p * y.q + y.p * x.q, x.q * y.q)
OneMinus(x) == Frac(x.q - x.p, x.q)
Zero == [p |-> 0, q |-> 1]
One == [p |-> 1, q |-> 1]

\* Characters of a text: word characters in either case, punctuation, space.
Alphabet == {"a", "A", "b", ".", " "}
IsWordChar(c) == c \in {"a", "A", "b"}
LowerChar(c) == IF c = "A" THEN "a" ELSE c

\* Variant: the case of a character is kept.
RECURSIVE TokenizeCaseSensitive(_, _)
TokenizeCaseSensitive(text, current) ==
    IF text = <<>> THEN (IF current = <<>> THEN {} ELSE {current})
    ELSE IF IsWordChar(Head(text))
         THEN TokenizeCaseSensitive(Tail(text), Append(current, Head(text)))
         ELSE (IF current = <<>> THEN {} ELSE {current})
                  \cup TokenizeCaseSensitive(Tail(text), <<>>)

\* JaccardDissenter._tokenize: the set of the lower-cased maximal runs of word
\* characters; current is the run being read.
RECURSIVE Tokenize(_, _)
Tokenize(text, current) ==
    IF text = <<>> THEN (IF current = <<>> THEN {} ELSE {current})
    ELSE IF IsWordChar(Head(text))
         THEN Tokenize(Tail(text), Append(current, LowerChar(Head(text))))
         ELSE (IF current = <<>> THEN {} ELSE {current}) \cup Tokenize(Tail(text), <<>>)

\* Variant: two empty token sets are judged disjoint.
JaccardSimilarityEmptyZero(t1, t2) ==
    LET s1 == Tokenize(t1, <<>>)
        s2 == Tokenize(t2, <<>>)
    IN  IF s1 = {} \/ s2 = {} THEN Zero
        ELSE Frac(Cardinality(s1 \cap s2), Cardinality(s1 \cup s2))

\* JaccardDissenter._calculate_jaccard_similarity
JaccardSimilarity(t1, t2) ==
    LET s1 == Tokenize(t1, <<>>)
        s2 == Tokenize(t2, <<>>)
    IN  IF s1 = {} /\ s2 = {} THEN One
        ELSE IF s1 = {} \/ s2 = {} THEN Zero
        ELSE Frac(Cardinality(s1 \cap s2), Cardinality(s1 \cup s2))

\* The unordered pairs <<i, j>>, i < j, of 1..n in the order of the nested loop.
UnorderedPairs(n) == SelectSeq(AllPairs(n), LAMBDA pr : pr[1] < pr[2])

RECURSIVE SumSimilarity(_, _)
SumSimilarity(texts, pairs) ==
    IF pairs = <<>> THEN Zero
    ELSE FracAdd(JaccardSimilarity(texts[Head(pairs)[1]], texts[Head(pairs)[2]]),
                 SumSimilarity(texts, Tail(pairs)))

\* Variant: only neighbouring proposals are compared.
JaccardEntropyNeighbours(texts) ==
    IF Len(texts) <= 1 THEN Zero
    ELSE LET pairs == [k \in 1..(Len(texts) - 1) |-> <<k, k + 1>>]
             total == SumSimilarity(texts, pairs)
         IN  OneMinus(Frac(total.p, total.q * Len(pairs)))

\* JaccardDissenter.calculate_entropy over the proposals' contents: 0 for fewer
\* than two proposals, else 1 - average pairwise similarity.
JaccardEntropy(texts) ==
    IF Len(texts) <= 1 THEN Zero
    ELSE LET pairs == UnorderedPairs(Len(texts))
             total == SumSimilarity(texts, pairs)
         IN  OneMinus(Frac(total.p, total.q * Len(pairs)))

\* Texts of at most MaxTextLen characters.
Texts == UNION {[1..n -> Alphabet] : n \in 0..MaxTextLen}

\* Proposal contents for the entropy calls: "a b", "b", "A.", "a a", ".", "".
SampleTexts ==
    { <<"a", " ", "b">>, <<"b">>, <<"A", ".">>, <<"a", " ", "a">>, <<".">>, <<>> }

TextLists == UNION {[1..n -> SampleTexts] : n \in 0..MaxProposers}

\* The permutations of 1..n, n up to MaxProposers.
Reorderings ==
    UNION {{f \in [1..n -> 1..n] : \A i, j \in 1..n : f[i] = f[j] => i = j} :
              n \in 0..MaxProposers}

\* A direct call dissenter._calculate_jaccard_similarity(t1, t2) on any two texts.
SimilarityCall ==
    /\ pc = "idle"
    /\ \E t1 \in Texts, t2 \in Texts :
          jaccardCalls' = Append(jaccardCalls,
              [op |-> "similarity", texts |-> <<t1, t2>>,
               tokens |-> <<Tokenize(t1, <<>>), Tokenize(t2, <<>>)>>,
               value |-> JaccardSimilarity(t1, t2)])
    /\ pc' = "checked"
    /\ UNCHANGED <<max_rounds_override, other, proposers, personas, dissenter, entropy_threshold, max_rounds,
                   budget_manager, constructCalls, budgetCalls, reviseCalls, critiqueCalls,
                   current_max_rounds, proposals, current_round, critiques, is_deadlock,
                   trace, done, error, result, entropyCalls, aggregateCalls>>

\* A direct call dissenter.calculate_entropy(proposals) on any list of
\* proposals, texts being their contents.
JaccardEntropyCall ==
    /\ pc = "idle"
    /\ \E texts \in TextLists :
          jaccardCalls' = Append(jaccardCalls,
              [op |-> "entropy", texts |-> texts, tokens |-> <<>>,
               value |-> JaccardEntropy(texts)])
    /\ pc' = "measured"
    /\ UNCHANGED <<max_rounds_override, other, proposers, personas, dissenter, entropy_threshold, max_rounds,
                   budget_manager, constructCalls, budgetCalls, reviseCalls, critiqueCalls,
                   current_max_rounds, proposals, current_round, critiques, is_deadlock,
                   trace, done, error, result, entropyCalls, aggregateCalls>>

\* A second call of calculate_entropy on the same dissenter, with the
\* proposals of the first call in any order (the same order included).
JaccardEntropyAgain ==
    /\ pc = "measured"
    /\ \E perm \in Reorderings :
          /\ DOMAIN perm = 1..Len(jaccardCalls[1].texts)
          /\ LET texts == [k \in DOMAIN perm |-> jaccardCalls[1].texts[perm[k]]]
             IN  jaccardCalls' = Append(jaccardCalls,
                     [op |-> "entropy", texts |-> texts, tokens |-> <<>>,
                      value |-> JaccardEntropy(texts)])
    /\ pc' = "checked"
    /\ UNCHANGED <<max_rounds_override, other, proposers, personas, dissenter, entropy_threshold, max_rounds,
                   budget_manager, constructCalls, budgetCalls, reviseCalls, critiqueCalls,
                   current_max_rounds, proposals, current_round, critiques, is_deadlock,
                   trace, done, error, result, entropyCalls, aggregateCalls>>

\* A JaccardDissenter on its own: no speaker, no session.
InitJaccard ==
    /\ proposers = <<>>
    /\ personas = <<>>
    /\ dissenter = [kind |-> "jaccard", default_entropy_score |-> 0]
    /\ entropy_threshold = 0
    /\ max_rounds = 0
    /\ budget_manager = None
    /\ pc = "idle"
    /\ current_max_rounds = 0
    /\ proposals = <<>>
    /\ current_round = 0
    /\ critiques = <<>>
    /\ is_deadlock = FALSE
    /\ trace = NewTrace(<<>>)
    /\ done = {}
    /\ error = None
    /\ result = None
    /\ entropyCalls = <<>>
    /\ aggregateCalls = <<>>
    /\ budgetCalls = <<>>
    /\ reviseCalls = <<>> /\ critiqueCalls = <<>>
    /\ constructCalls = <<>>
    /\ jaccardCalls = <<>>
    /\ other = NoCall
    /\ max_rounds_override = None

NextJaccard ==
    \/ SimilarityCall
    \/ JaccardEntropyCall
    \/ JaccardEntropyAgain

SpecJaccard == InitJaccard /\ [][NextJaccard]_vars

\* ------------------------------------------------- lexical-overlap claims
\* The tokens of a text, said directly: the lower-cased maximal runs of word
\* characters, a run being bounded by the ends of the text or by punctuation or
\* whitespace.
IsRun(text, i, j) ==
    /\ i <= j
    /\ \A k \in i..j : IsWordChar(text[k])
    /\ i = 1 \/ ~IsWordChar(text[i - 1])
    /\ j = Len(text) \/ ~IsWordChar(text[j + 1])

NormalizedTokens(text) ==
    {[k \in 1..(j - i + 1) |-> IF text[i + k - 1] = "A" THEN "a" ELSE text[i + k - 1]] :
        <<i, j>> \in {pr \in (1..Len(text)) \X (1..Len(text)) : IsRun(text, pr[1], pr[2])}}

\* C24: lexical-overlap similarity on token sets.  Tokenization is
\* case-insensitive and discards punctuation and whitespace; similarity is 1.0
\* when the two normalized token sets are identical (both empty included), 0.0
\* when exactly one is empty or both are non-empty and disjoint, and
\* |intersection| / |union| otherwise.
C24_JaccardSimilarity ==
    \A k \in 1..Len(jaccardCalls) :
        jaccardCalls[k].op = "similarity" =>
            LET c == jaccardCalls[k]
                A == NormalizedTokens(c.texts[1])
                B == NormalizedTokens(c.texts[2])
            IN  /\ c.tokens = <<A, B>>
                /\ A = B => c.value = One
                /\ (A = {}) # (B = {}) => c.value = Zero
                /\ (A # {} /\ B # {} /\ A \cap B = {}) => c.value = Zero
                /\ (A # {} /\ B # {}) =>
                      c.value.p * Cardinality(A \cup B) = c.value.q * Cardinality(A \cap B)

C24_Witness ==
    /\ jaccardCalls # <<>> /\ jaccardCalls[1].op = "similarity"
    /\ jaccardCalls[1].texts = << <<"A", ".", "b">>, <<" ", "a">> >>
    /\ jaccardCalls[1].tokens = << {<<"a">>, <<"b">>}, {<<"a">>} >>
    /\ jaccardCalls[1].value = [p |-> 1, q |-> 2]

C24_WitnessBothEmpty ==
    /\ jaccardCalls # <<>> /\ jaccardCalls[1].op = "similarity"
    /\ jaccardCalls[1].texts = << <<".", ".">>, <<" ", ".">> >>
    /\ jaccardCalls[1].value = One

C24_WitnessOneEmpty ==
    /\ jaccardCalls # <<>> /\ jaccardCalls[1].op = "similarity"
    /\ jaccardCalls[1].texts = << <<"a", "b">>, <<".">> >>
    /\ jaccardCalls[1].value = Zero

C25_WitnessRepeated ==
    /\ Len(jaccardCalls) = 2
    /\ jaccardCalls[1].texts = << <<".">>, <<>> >>
    /\ jaccardCalls[2].texts = jaccardCalls[1].texts
    /\ jaccardCalls[2].value = Zero

\* ------------------------------------------------------ returned trace
\* The trace resolve_query returned.
ReturnedTrace == result[1].trace

\* C26: every successful resolve_query returns a trace whose terminal fields
\* are set: final_verdict is the returned verdict, vote_tally and entropy_score
\* are not null, roster is the persona names in construction order, and the
\* last transcript entry is the only one with action "verdict", by "Aggregator".
C26_TerminalFields ==
    (result # None) =>
        /\ pc = "done"
        /\ ReturnedTrace.final_verdict = Some(ReturnedVerdict)
        /\ ReturnedTrace.vote_tally # None
        /\ ReturnedTrace.entropy_score # None
        /\ ReturnedTrace.entropy_score = Last(entropyCalls).value
        /\ ReturnedTrace.roster = personas
        /\ ReturnedTrace.transcripts # <<>>
        /\ Last(ReturnedTrace.transcripts).action = <<"verdict">>
        /\ Last(ReturnedTrace.transcripts).actor = "Aggregator"
        /\ Last(ReturnedTrace.transcripts).content = ReturnedVerdict.content
        /\ CountIf(ReturnedTrace.transcripts, <<"verdict">>) = 1

C26_Witness ==
    /\ result # None /\ N = 3 /\ current_round = 3
    /\ ReturnedTrace.roster = <<1, 2, 3>>
    /\ Len(ReturnedTrace.transcripts) = 3 + 2 * 9 + 1
    /\ ReturnedTrace.entropy_score = Some(0)

C26_WitnessImmediate ==
    /\ result # None /\ N = 2 /\ current_round = 1
    /\ Len(ReturnedTrace.transcripts) = 3

\* ------------------------------------------------- sessions whose calls return
\* A speaker over the stub proposers whose dissenter may return any entropy
\* sequence.
InitLive ==
    /\ \E n \in 1..MaxProposers :
          /\ proposers = [i \in 1..n |-> MockProposer(i)]
          /\ personas = [i \in 1..n |-> i]
    /\ dissenter = ScriptedDissenter
    /\ entropy_threshold \in Thresholds
    /\ max_rounds = MaxRounds
    /\ budget_manager = None
    /\ pc = "idle"
    /\ current_max_rounds = 0
    /\ proposals = <<>>
    /\ current_round = 0
    /\ critiques = <<>>
    /\ is_deadlock = FALSE
    /\ trace = NewTrace(<<>>)
    /\ done = {}
    /\ error = None
    /\ result = None
    /\ entropyCalls = <<>>
    /\ aggregateCalls = <<>>
    /\ budgetCalls = <<>>
    /\ reviseCalls = <<>> /\ critiqueCalls = <<>>
    /\ constructCalls = <<>>
    /\ jaccardCalls = <<>>
    /\ other = NoCall
    /\ max_rounds_override = None

\* One step of a session in which the awaited call returns.
SessionStep ==
    \/ \E i \in 1..(MaxProposers * MaxProposers) : TaskReturn(i)
    \/ GatherProposals
    \/ \E e \in EntropyValues : EntropyReturn(e)
    \/ GatherCritiques
    \/ GatherRevisions
    \/ \E a \in Aggregators : AggregateReturn(a)

\* resolve_query is called with any max_rounds, negative included, and no
\* collaborator raises.
NextLive ==
    \/ \E o \in {None} \cup {Some(r) : r \in (-1)..MaxRounds} : ResolveQuery(o)
    \/ SessionStep

\* The event loop resumes resolve_query whenever what it awaits has returned.
SpecLive == InitLive /\ [][NextLive]_vars /\ WF_vars(SessionStep)

\* Debate rounds started so far.
DebateRounds ==
    IF pc \in {"critique", "revise"} THEN current_round
    ELSE IF current_round >= 1 THEN current_round - 1 ELSE 0

RoundLimit == IF current_max_rounds >= 1 THEN current_max_rounds - 1 ELSE 0

C27_WitnessNegative ==
    /\ pc = "done" /\ AllHigh /\ current_max_rounds = -1 /\ DebateRounds = 0

\* ------------------------------------------------- the critique fan-out
\* The critique_proposal calls of debate round r.
CallsOfRound(r) == SelectSeq(critiqueCalls, LAMBDA c : c.round = r)

\* The debate rounds for which critique_proposal was called.
CritiqueRounds == {critiqueCalls[k].round : k \in 1..Len(critiqueCalls)}

\* The calls of round r with target i and critic j.
PairCalls(r, i, j) ==
    SelectSeq(CallsOfRound(r), LAMBDA c : c.target = i /\ c.critic = j)

\* C28: in each debate round critique_proposal is invoked exactly once for
\* every ordered pair (target i, critic j) with i # j, on critic j's proposer
\* with critic j's persona and the current proposal of i, and never for a
\* self-pair i = j.
C28_CritiquePerOrderedPair ==
    /\ [](\A r \in 1..DebateRounds : \A i, j \in 1..N :
             IF i = j THEN PairCalls(r, i, j) = <<>>
             ELSE /\ Len(PairCalls(r, i, j)) = 1
                  /\ PairCalls(r, i, j)[1].proposer = proposers[j]
                  /\ PairCalls(r, i, j)[1].persona = personas[j]
                  /\ PairCalls(r, i, j)[1].proposal.proposer_id = InitialId(i))
    /\ [](pc = "critique" =>
             \A k \in 1..Len(CallsOfRound(current_round)) :
                   CallsOfRound(current_round)[k].proposal
                       = proposals[CallsOfRound(current_round)[k].target])
    /\ [][critiqueCalls' # critiqueCalls =>
             /\ pc = "entropy" /\ pc' = "critique" /\ proposals' = proposals
             /\ Len(critiqueCalls') = Len(critiqueCalls) + N * (N - 1)
             /\ current_round \notin CritiqueRounds]_vars

C28_Witness ==
    /\ N = 3 /\ pc = "revise" /\ current_round = 2
    /\ Len(critiqueCalls) = 12 /\ Len(CallsOfRound(2)) = 6
    /\ PairCalls(2, 1, 3) # <<>> /\ PairCalls(2, 1, 3)[1].proposal # PairCalls(1, 1, 3)[1].proposal

\* ------------------------------------------------- phase barriers
\* C29: phase barriers.  In every interleaving of the task completions, a
\* calculate_entropy call starts only when all n propose calls, or all n
\* revise_proposal calls of the preceding round, have completed; the
\* revise_proposal calls of a round start only when all n*(n-1)
\* critique_proposal calls of that round have completed; aggregate starts only
\* after the final entropy check, which no other check follows.
C29_PhaseBarriers ==
    /\ [][(pc' = "entropy" /\ pc # "entropy") =>
             /\ pc \in {"propose", "revise"}
             /\ done = 1..N
             /\ pc = "propose" => Len(entropyCalls) = 0
             /\ pc = "revise" => /\ current_round' = current_round + 1
                                 /\ Len(entropyCalls) = current_round]_vars
    /\ [][(pc' = "revise" /\ pc # "revise") =>
             /\ pc = "critique"
             /\ done = 1..(N * (N - 1))
             /\ Len(CallsOfRound(current_round)) = N * (N - 1)
             /\ current_round' = current_round]_vars
    /\ [][(pc' = "aggregate" /\ pc # "aggregate") =>
             /\ pc = "entropy"
             /\ Len(entropyCalls') = Len(entropyCalls) + 1
             /\ Last(entropyCalls').round = current_round]_vars
    /\ [][aggregateCalls' # aggregateCalls =>
             pc = "aggregate" /\ entropyCalls # <<>>]_vars
    /\ [][(pc = "aggregate" \/ aggregateCalls # <<>>) =>
             entropyCalls' = entropyCalls]_vars

C29_Witness ==
    /\ N = 3 /\ pc = "critique" /\ current_round = 2
    /\ done = {6, 2, 4}

C29_WitnessAggregate ==
    /\ N = 3 /\ pc = "done" /\ Len(entropyCalls) = 3 /\ aggregateCalls # <<>>

\* ------------------------------------------------- critiques handed to aggregate
\* The critique a critique_proposal call yields.
CritiqueOfCall(c) == CritiqueProposal(c.proposal, c.persona)

\* The critiques the calls of debate round r produced, in task order.
CritiquesOfRound(r) ==
    [k \in 1..Len(CallsOfRound(r)) |-> CritiqueOfCall(CallsOfRound(r)[k])]

\* C30: the critiques passed to aggregate are exactly those produced in the
\* last completed debate round, those of earlier rounds being discarded, and
\* the empty list when no debate round occurred; the entropy check that ends
\* the loop by convergence or exhaustion adds no critiques.
C30_LatestCritiques ==
    /\ [](\A k \in 1..Len(aggregateCalls) :
             aggregateCalls[k].critiques =
                 IF current_round <= 1 THEN <<>>
                 ELSE CritiquesOfRound(current_round - 1))
    /\ [][(pc = "entropy" /\ pc' = "aggregate") => critiques' = critiques]_vars

C30_Witness ==
    /\ N = 3 /\ pc = "done" /\ current_round = 3
    /\ Len(aggregateCalls[1].critiques) = 6
    /\ aggregateCalls[1].critiques # CritiquesOfRound(1)

C30_WitnessNoDebate ==
    /\ N = 3 /\ pc = "done" /\ current_round = 1
    /\ aggregateCalls[1].critiques = <<>>

\* ------------------------------------------------- entropy checks of a session
\* The debate rounds the returned transcript shows as completed.
CompletedRounds ==
    {r \in 1..MaxRounds :
        CountIf(ReturnedTrace.transcripts, <<"revise_round", r>>) = N}

\* C31: calculate_entropy is invoked exactly (completed debate rounds + 1)
\* times per successful session, once on the initial proposals and once after
\* each revision batch, and the entropy_score of the returned trace is the
\* value the last call returned, earlier values having been overwritten.
C31_EntropyChecks ==
    /\ [](result # None =>
             /\ Len(entropyCalls) = Cardinality(CompletedRounds) + 1
             /\ \A k \in 1..Len(entropyCalls) :
                   /\ entropyCalls[k].round = k
                   /\ entropyCalls[k].n = N
                   /\ entropyCalls[k].value # None
                   /\ k > 1 => (k - 1) \in CompletedRounds
             /\ ReturnedTrace.entropy_score = entropyCalls[Len(entropyCalls)].value)
    /\ [][entropyCalls' # entropyCalls =>
             /\ pc = "entropy"
             /\ Len(entropyCalls') = Len(entropyCalls) + 1
             /\ Len(reviseCalls) = Len(entropyCalls) * N
             /\ Last(entropyCalls').value # None =>
                   trace'.entropy_score = Last(entropyCalls').value]_vars

C31_Witness ==
    /\ result # None /\ N = 2 /\ Len(entropyCalls) = 3
    /\ CompletedRounds = {1, 2}
    /\ entropyCalls[1].value # entropyCalls[3].value
    /\ ReturnedTrace.entropy_score = entropyCalls[3].value

\* ------------------------------------------------- shape of the transcript
\* k copies of the action tag a.
Repeat(a, k) == [i \in 1..k |-> a]

\* The tags of R debate rounds of n proposers, rounds in increasing order.
RECURSIVE RoundTags(_, _)
RoundTags(n, R) ==
    IF R <= 0 THEN <<>>
    ELSE RoundTags(n, R - 1)
            \o Repeat(<<"critique_round", R>>, n * (n - 1))
            \o Repeat(<<"revise_round", R>>, n)

\* The action tags of the returned transcript, in order.
ReturnedTags ==
    [k \in 1..Len(ReturnedTrace.transcripts) |-> ReturnedTrace.transcripts[k].action]

\* C32: the transcript of a successful session with n proposers and R
\* completed debate rounds is n "propose" entries, then for r = 1..R in
\* increasing order n*(n-1) "critique_round_r" entries immediately followed by
\* n "revise_round_r" entries, then one "verdict" entry; its length is
\* n + R*n*n + 1 and no entry of round r+1 precedes an entry of round r.
C32_TranscriptShape ==
    result # None =>
        LET R == Len(entropyCalls) - 1
        IN  /\ ReturnedTags = Repeat(<<"propose">>, N) \o RoundTags(N, R)
                                 \o <<(<<"verdict">>)>>
            /\ Len(ReturnedTags) = N + R * N * N + 1
            /\ \A k, m \in 1..Len(ReturnedTags) :
                  (k < m /\ Len(ReturnedTags[k]) = 2 /\ Len(ReturnedTags[m]) = 2)
                      => ReturnedTags[k][2] <= ReturnedTags[m][2]

C32_Witness ==
    /\ result # None /\ N = 3 /\ Len(entropyCalls) = 3
    /\ Len(ReturnedTags) = 22
    /\ ReturnedTags[4] = <<"critique_round", 1>> /\ ReturnedTags[10] = <<"revise_round", 1>>
    /\ ReturnedTags[13] = <<"critique_round", 2>> /\ ReturnedTags[21] = <<"revise_round", 2>>

\* ------------------------------------------------- rosters with repeated personas
\* Persona lists of n entries: all different, all the same, the first two the
\* same.
RosterPersonas(n) ==
    { [i \in 1..n |-> i],
      [i \in 1..n |-> 1],
      [i \in 1..n |-> IF i <= 2 THEN 1 ELSE i] }

\* A speaker whose stub proposers all carry the default proposer_id_prefix, so
\* that positions with the same persona produce the same proposer_id.
InitRoster ==
    /\ \E n \in 2..MaxProposers :
          /\ proposers = [i \in 1..n |-> MockProposer(1)]
          /\ personas \in RosterPersonas(n)
    /\ dissenter \in MockDissenters
    /\ entropy_threshold \in Thresholds
    /\ max_rounds = MaxRounds
    /\ budget_manager = None
    /\ pc = "idle"
    /\ current_max_rounds = 0
    /\ proposals = <<>>
    /\ current_round = 0
    /\ critiques = <<>>
    /\ is_deadlock = FALSE
    /\ trace = NewTrace(<<>>)
    /\ done = {}
    /\ error = None
    /\ result = None
    /\ entropyCalls = <<>>
    /\ aggregateCalls = <<>>
    /\ budgetCalls = <<>>
    /\ reviseCalls = <<>> /\ critiqueCalls = <<>>
    /\ constructCalls = <<>>
    /\ jaccardCalls = <<>>
    /\ other = NoCall
    /\ max_rounds_override = None

SpecRoster == InitRoster /\ [][Next]_vars

\* The revise_proposal call of roster position k in debate round r.
ReviseCallOf(r, k) == reviseCalls[(r - 1) * N + k]

\* The debate rounds whose revise_proposal calls were made.
RevisedRounds == 1..(Len(reviseCalls) \div N)

\* The critiques of round r that were asked about the proposals at the roster
\* positions in S, in task order.
CritiquesAbout(r, S) ==
    LET calls == SelectSeq(CallsOfRound(r), LAMBDA c : c.target \in S)
    IN  [m \in 1..Len(calls) |-> CritiqueOfCall(calls[m])]

\* The roster positions whose round-r proposal has the proposer_id of position k's.
SameId(r, k) ==
    {j \in 1..N : ReviseCallOf(r, j).original.proposer_id
                     = ReviseCallOf(r, k).original.proposer_id}

DistinctIds(r) == \A k \in 1..N : SameId(r, k) = {k}

\* C33: critique routing.  In a debate round whose n proposals carry pairwise
\* distinct proposer_ids (each critique naming the id of the proposal it was
\* asked about), proposer k's revise_proposal call receives exactly the n-1
\* critiques asked about proposal k and none asked about another proposal, so
\* the n lists partition the round's critiques.  When two proposals share a
\* proposer_id the partition fails: both receive the critiques of both.
C33_CritiqueRouting ==
    \A r \in RevisedRounds : \A k \in 1..N :
        /\ DistinctIds(r) =>
              /\ ReviseCallOf(r, k).my_critiques = CritiquesAbout(r, {k})
              /\ Len(ReviseCallOf(r, k).my_critiques) = N - 1
        /\ \A j \in SameId(r, k) \ {k} :
              /\ ReviseCallOf(r, k).my_critiques = CritiquesAbout(r, SameId(r, k))
              /\ ReviseCallOf(r, k).my_critiques = ReviseCallOf(r, j).my_critiques
              /\ Len(ReviseCallOf(r, k).my_critiques) >= 2 * (N - 1)

C33_Witness ==
    /\ N = 3 /\ RevisedRounds = {1, 2} /\ DistinctIds(2)
    /\ Len(ReviseCallOf(2, 3).my_critiques) = 2
    /\ ReviseCallOf(2, 3).my_critiques # ReviseCallOf(2, 1).my_critiques

C33_WitnessSharedId ==
    /\ N = 3 /\ RevisedRounds = {1} /\ SameId(1, 1) = {1, 2}
    /\ Len(ReviseCallOf(1, 1).my_critiques) = 4
    /\ Len(ReviseCallOf(1, 3).my_critiques) = 2

\* ------------------------------------------------- the deadlock flag
\* C34: the deadlock flag is determined by the last entropy check alone.
\* aggregate is called exactly once per successful session, with
\* is_deadlock = True if and only if the entropy recorded on the returned trace
\* is strictly greater than entropy_threshold, and then current_round >=
\* effective max_rounds held at that check.
C34_DeadlockFlag ==
    result # None =>
        /\ Len(aggregateCalls) = 1
        /\ aggregateCalls[1].is_deadlock
              <=> (ReturnedTrace.entropy_score[1] > entropy_threshold)
        /\ aggregateCalls[1].is_deadlock
              => /\ Last(entropyCalls).round >= current_max_rounds
                 /\ Last(entropyCalls).value = ReturnedTrace.entropy_score
        /\ \A k \in 1..(Len(entropyCalls) - 1) : High(k)

C34_Witness ==
    /\ result # None /\ Len(entropyCalls) = 3 /\ current_max_rounds = 3
    /\ aggregateCalls[1].is_deadlock /\ ReturnedTrace.entropy_score = Some(50)

C34_WitnessLateConvergence ==
    /\ result # None /\ Len(entropyCalls) = 3 /\ current_max_rounds = 3
    /\ ~aggregateCalls[1].is_deadlock /\ ReturnedTrace.entropy_score = Some(10)

\* ------------------------------------------------- the tally and the flag
\* The labels of the returned verdict's alternatives.
ReturnedLabels ==
    {ReturnedVerdict.alternatives[k].label : k \in 1..Len(ReturnedVerdict.alternatives)}

\* The last alternative of the returned verdict carrying label l.
LastWithLabel(l) ==
    LET alts == ReturnedVerdict.alternatives
        ks == {k \in 1..Len(alts) : alts[k].label = l}
    IN  alts[CHOOSE k \in ks : \A m \in ks : m <= k]

\* C35: vote_tally is derived from the returned verdict's alternatives only,
\* never from is_deadlock.  A deadlocked session whose aggregator returns no
\* alternatives is tallied {"Consensus": n}; a converged session whose
\* aggregator returns alternatives is tallied per option label; two
\* alternatives sharing a label leave a single entry, the later option's count.
C35_TallyFromAlternatives ==
    result # None =>
        LET tally == ReturnedTrace.vote_tally[1]
            dl == aggregateCalls[1].is_deadlock
        IN  /\ (dl /\ ReturnedVerdict.alternatives = <<>>) =>
                  tally = [l \in {"Consensus"} |-> N]
            /\ (~dl /\ ReturnedVerdict.alternatives # <<>>) =>
                  /\ DOMAIN tally = ReturnedLabels
                  /\ "Consensus" \notin DOMAIN tally
            /\ \A l \in ReturnedLabels :
                  /\ l \in DOMAIN tally
                  /\ tally[l] = Cardinality(DistinctSupporters(LastWithLabel(l)))

C35_Witness ==
    /\ result # None /\ aggregateCalls[1].is_deadlock /\ N = 3
    /\ ReturnedVerdict.alternatives = <<>>
    /\ ReturnedTrace.vote_tally = Some([l \in {"Consensus"} |-> 3])

C35_WitnessConverged ==
    /\ result # None /\ ~aggregateCalls[1].is_deadlock
    /\ Len(ReturnedVerdict.alternatives) = 2 /\ ReturnedLabels = {"Option A"}
    /\ ReturnedTrace.vote_tally = Some([l \in {"Option A"} |-> 1])

\* ------------------------------------------------- the proposal set
\* props holds one proposal per roster position, in roster order, each revised
\* v times.
WholeSet(props, v) ==
    /\ Len(props) = N
    /\ \A k \in 1..N :
          /\ props[k].proposer_id = InitialId(k)
          /\ props[k].content = <<"proposal", personas[k], v>>

\* C36: at every entropy check and at aggregation the current proposal set
\* has exactly n elements, one per roster position in roster order, n being
\* the number of proposers fixed at construction, and a debate round replaces
\* all n proposals at once: neither the estimator nor the aggregator observes
\* a mix of revised and unrevised proposals.
C36_WholeProposalSet ==
    /\ [](pc \in {"entropy", "critique", "revise", "aggregate", "done"} =>
             WholeSet(proposals, current_round - 1))
    /\ [](\A k \in 1..Len(entropyCalls) : entropyCalls[k].n = N)
    /\ [](\A k \in 1..Len(aggregateCalls) :
             WholeSet(aggregateCalls[k].proposals, current_round - 1))
    /\ [][proposals' # proposals =>
             /\ pc \in {"propose", "revise"} /\ pc' = "entropy"
             /\ Len(proposals') = N
             /\ pc = "revise" => \A k \in 1..N : proposals'[k] # proposals[k]]_vars
    /\ [][N' = N]_vars

C36_Witness ==
    /\ pc = "entropy" /\ N = 3 /\ current_round = 3
    /\ WholeSet(proposals, 2) /\ Len(entropyCalls) = 2

C36_WitnessAggregate ==
    /\ pc = "done" /\ N = 3 /\ current_round = 2
    /\ WholeSet(aggregateCalls[1].proposals, 1)

\* ------------------------------------------------- two interleaved calls
\* Variant: the trace is kept on the orchestrator, one object for both calls.
SwitchSharedTrace ==
    /\ other.pc # "idle" \/ pc # "idle"
    /\ other' = Locals
    /\ pc' = other.pc
    /\ current_max_rounds' = other.current_max_rounds
    /\ proposals' = other.proposals
    /\ current_round' = other.current_round
    /\ critiques' = other.critiques
    /\ is_deadlock' = other.is_deadlock
    /\ done' = other.done
    /\ error' = other.error
    /\ result' = other.result
    /\ entropyCalls' = other.entropyCalls
    /\ aggregateCalls' = other.aggregateCalls
    /\ budgetCalls' = other.budgetCalls
    /\ reviseCalls' = other.reviseCalls
    /\ max_rounds_override' = other.max_rounds_override
    /\ critiqueCalls' = other.critiqueCalls
    /\ UNCHANGED <<trace, proposers, personas, dissenter, entropy_threshold, max_rounds,
                   budget_manager, constructCalls, jaccardCalls>>

\* The event loop suspends the running call at its await and resumes the other
\* one: each call finds its own locals as it left them.
Switch ==
    /\ other.pc # "idle" \/ pc # "idle"
    /\ other' = Locals
    /\ pc' = other.pc
    /\ current_max_rounds' = other.current_max_rounds
    /\ proposals' = other.proposals
    /\ current_round' = other.current_round
    /\ critiques' = other.critiques
    /\ is_deadlock' = other.is_deadlock
    /\ trace' = other.trace
    /\ done' = other.done
    /\ error' = other.error
    /\ result' = other.result
    /\ entropyCalls' = other.entropyCalls
    /\ aggregateCalls' = other.aggregateCalls
    /\ budgetCalls' = other.budgetCalls
    /\ reviseCalls' = other.reviseCalls
    /\ max_rounds_override' = other.max_rounds_override
    /\ critiqueCalls' = other.critiqueCalls
    /\ UNCHANGED <<proposers, personas, dissenter, entropy_threshold, max_rounds,
                   budget_manager, constructCalls, jaccardCalls>>

\* The number of proposers of the orchestrator the two calls share.
PairProposers == MaxProposers - 1

\* One orchestrator over stub proposers and a scripted dissenter.
InitPair ==
    /\ proposers = [i \in 1..PairProposers |-> MockProposer(i)]
    /\ personas = [i \in 1..PairProposers |-> i]
    /\ dissenter = ScriptedDissenter
    /\ entropy_threshold \in Thresholds
    /\ max_rounds = MaxRounds - 1
    /\ budget_manager = None
    /\ pc = "idle"
    /\ current_max_rounds = 0
    /\ proposals = <<>>
    /\ current_round = 0
    /\ critiques = <<>>
    /\ is_deadlock = FALSE
    /\ trace = NewTrace(<<>>)
    /\ done = {}
    /\ error = None
    /\ result = None
    /\ entropyCalls = <<>>
    /\ aggregateCalls = <<>>
    /\ budgetCalls = <<>>
    /\ reviseCalls = <<>> /\ critiqueCalls = <<>>
    /\ constructCalls = <<>>
    /\ jaccardCalls = <<>>
    /\ other = NoCall
    /\ max_rounds_override = None

\* Two calls, with or without a max_rounds argument, run by one event loop.
NextPair ==
    \/ \E o \in {None, Some(0), Some(1)} : ResolveQuery(o)
    \/ \E i \in 1..(MaxProposers * MaxProposers) : TaskReturn(i)
    \/ \E i \in 1..(MaxProposers * MaxProposers) : TaskRaise(i)
    \/ GatherProposals
    \/ \E e \in EntropyValues : EntropyReturn(e)
    \/ EntropyRaise
    \/ GatherCritiques
    \/ GatherRevisions
    \/ \E a \in Aggregators : AggregateReturn(a)
    \/ AggregateRaise
    \/ Switch

SpecPair == InitPair /\ [][NextPair]_vars

\* The action tags of the transcript of trace t, in order.
TagsOf(t) == [k \in 1..Len(t.transcripts) |-> t.transcripts[k].action]

\* What the call with locals L holds is its own: its returned trace is the
\* trace it created, with the transcript of its own rounds, and its round
\* counter, proposal set and critique list follow its own entropy checks.
OwnSession(L) ==
    /\ L.pc \in {"critique", "revise", "aggregate", "done"} =>
          L.current_round = Len(L.entropyCalls)
    /\ L.pc = "entropy" => L.current_round = Len(L.entropyCalls) + 1
    /\ L.pc \in {"entropy", "critique", "revise", "aggregate", "done"} =>
          /\ Len(L.proposals) = N
          /\ \A k \in 1..N : L.proposals[k].content[3] = L.current_round - 1
          /\ L.pc # "done" =>
                TagsOf(L.trace) =
                    SubSeq(Repeat(<<"propose">>, N) \o RoundTags(N, L.current_round),
                           1, Len(L.trace.transcripts))
    /\ L.pc \in {"aggregate", "done"} =>
          Len(L.critiques) = IF L.current_round = 1 THEN 0 ELSE N * (N - 1)
    /\ L.result # None =>
          /\ L.result[1].trace = L.trace
          /\ TagsOf(L.trace) = Repeat(<<"propose">>, N)
                                  \o RoundTags(N, Len(L.entropyCalls) - 1)
                                  \o <<(<<"verdict">>)>>
          /\ L.aggregateCalls[1].is_deadlock
                <=> (Last(L.entropyCalls).value[1] > entropy_threshold)
          /\ L.trace.entropy_score = Last(L.entropyCalls).value

\* C37: session isolation.  Two resolve_query calls on one orchestrator,
\* interleaved at any suspension points, each own a trace, a round counter, a
\* proposal set and a critique list; each returned trace holds only the
\* entries of its own call under its own session identifier, and what one call
\* returns does not depend on the progress of the other.
C37_SessionIsolation ==
    /\ [](OwnSession(Locals) /\ OwnSession(other))
    /\ []((pc # "idle" /\ other.pc # "idle") =>
             trace.session_id # other.trace.session_id)
    /\ [][other' # other => (other' = Locals /\ Locals' = other)]_vars

C37_Witness ==
    /\ result # None /\ other.result # None
    /\ Len(entropyCalls) = 2 /\ Len(other.entropyCalls) = 1
    /\ Len(trace.transcripts) = N + N * N + 1
    /\ Len(other.trace.transcripts) = N + 1
    /\ trace.session_id = 2 /\ other.trace.session_id = 1

C37_WitnessInterleaved ==
    /\ pc = "revise" /\ other.pc = "critique"
    /\ done # {} /\ other.done # {}
    /\ current_round = 1 /\ other.current_round = 1

C37_WitnessOtherFailed ==
    /\ result # None /\ other.pc = "failed" /\ other.trace.session_id = 1

\* ------------------------------------------------- the max_rounds argument
\* The call with locals L runs with its own argument when it has one and with
\* the constructor's max_rounds otherwise, and a deadlocked call made as many
\* entropy checks as that limit allows.
OwnLimit(L) ==
    L.pc # "idle" =>
        /\ L.max_rounds_override # None =>
              L.current_max_rounds = L.max_rounds_override[1]
        /\ L.max_rounds_override = None => L.current_max_rounds = max_rounds
        /\ (L.result # None /\ L.aggregateCalls[1].is_deadlock) =>
              Len(L.entropyCalls) =
                  IF L.current_max_rounds >= 1 THEN L.current_max_rounds ELSE 1

\* C38: a max_rounds value passed to resolve_query replaces the constructor's
\* max_rounds for that call only, every non-null value being honoured, 0
\* included; the configured max_rounds, entropy_threshold, proposers and
\* personas are unchanged by any resolve_query call, so that a later call
\* without the argument runs with the constructor value again.
C38_OverrideThisCallOnly ==
    /\ [](OwnLimit(Locals) /\ OwnLimit(other))
    /\ [][<<max_rounds, entropy_threshold, proposers, personas>>'
             = <<max_rounds, entropy_threshold, proposers, personas>>]_vars

C38_Witness ==
    /\ other.result # None /\ other.trace.session_id = 1
    /\ other.max_rounds_override = Some(0) /\ other.current_max_rounds = 0
    /\ other.aggregateCalls[1].is_deadlock /\ Len(other.entropyCalls) = 1
    /\ result # None /\ trace.session_id = 2
    /\ max_rounds_override = None /\ current_max_rounds = max_rounds
    /\ aggregateCalls[1].is_deadlock /\ Len(entropyCalls) = max_rounds

C38_WitnessOne ==
    /\ result # None /\ max_rounds_override = Some(1) /\ max_rounds # 1
    /\ aggregateCalls[1].is_deadlock /\ Len(critiqueCalls) = 0

\* ------------------------------------------------- the transcript grows at its end
\* The fields of a trace other than its transcript.
OtherFields(t) ==
    <<t.session_id, t.roster, t.topology, t.entropy_score, t.vote_tally, t.final_verdict>>

\* C39: the transcript is append-only.  Every log_interaction call adds one
\* entry at the end and leaves the earlier entries and the other trace fields
\* (session_id, roster, topology, entropy_score, vote_tally, final_verdict)
\* unchanged; over a session the transcript never gets shorter and its earlier
\* entries are never reordered or rewritten.
C39_AppendOnly ==
    [][LET old == trace.transcripts
           new == trace'.transcripts
       IN  /\ Len(new) >= Len(old)
           /\ SubSeq(new, 1, Len(old)) = old
           /\ (pc \in {"propose", "critique", "revise"} /\ new # old) =>
                 /\ Len(new) = Len(old) + BatchSize
                 /\ OtherFields(trace') = OtherFields(trace)
                 /\ \A k \in (Len(old) + 1)..Len(new) :
                       new[k].action = IF pc = "propose" THEN <<"propose">>
                                       ELSE IF pc = "critique"
                                            THEN <<"critique_round", current_round>>
                                            ELSE <<"revise_round", current_round>>
           /\ (pc = "aggregate" /\ new # old) =>
                 /\ Len(new) = Len(old) + 1
                 /\ Last(new).action = <<"verdict">>
                 /\ trace'.session_id = trace.session_id
                 /\ trace'.roster = trace.roster
                 /\ trace'.topology = trace.topology
                 /\ trace'.entropy_score = trace.entropy_score
           /\ pc \in {"entropy", "done", "failed"} => new = old]_vars

C39_Witness ==
    /\ pc = "revise" /\ N = 2 /\ current_round = 2
    /\ Len(Transcripts) = 2 + 2 + 2 + 2
    /\ Transcripts[1].action = <<"propose">>
    /\ Transcripts[8].action = <<"critique_round", 2>>

====
